---- MODULE Spec2Model ----
(***************************************************************************)
(* pg-operator: the Database and PostGresConnection reconcilers, the       *)
(* PostgreSQL services they call (Client, DatabaseService, UserService)    *)
(* and the Kubernetes services (SecretService, StatusService).             *)
(*                                                                         *)
(* The repository holds two builds of the Database reconciler: the         *)
(* monolithic controller (all logic in database_controller.go) and the     *)
(* refactored controller that delegates to the service packages.  The      *)
(* variable impl selects the build ("mono" or "svc"); it never changes.    *)
(*                                                                         *)
(* A reconciliation is a sequence of steps, one per blocking call to the   *)
(* resource store or to the PostgreSQL server; pc holds each               *)
(* reconciliation's position.  crypto/rand.Read is taken never to fail;    *)
(* a generated password is a value no other generation returns.            *)
(***************************************************************************)
EXTENDS Integers, Sequences, FiniteSets, TLC

\* ------------------------------------------------------------------ bounds
MaxUsers == 2
MaxRuns == 3
MaxFaults == 1
MaxRequeueUsers == 1

\* -------------------------------------------------------- program constants
\* time.Minute * 5 and time.Minute, in minutes; ctrl.Result{} carries 0.
RequeueReadyMinutes == 5
RequeueNotReadyMinutes == 1
DefaultPort == 5432

\* -------------------------------------------------------------- vocabulary
Impls == {"mono", "svc"}

PermissionConnect == "CONNECT"
PermissionCreate == "CREATE"
PermissionUsage == "USAGE"
PermissionSelect == "SELECT"
PermissionInsert == "INSERT"
PermissionUpdate == "UPDATE"
PermissionDelete == "DELETE"
PermissionAll == "ALL"

\* types.NamespacedName.String()
NamespacedName(namespace, name) == namespace \o "/" \o name

\* fmt.Errorf("<prefix>: %w", err) and fmt.Sprintf("<prefix>: %v", err)
Wrap(prefix, err) == prefix \o ": " \o err

\* The resource keys the workqueue may hand to the Database reconciler.
DbKeys == {"ns1/app-db", "ns1/ghost-db"}
ConnKeys == {"ns2/pg", "ns2/ghost-pg"}

\* The role declarations a Database may carry (DatabaseUser).  CreateSecret is
\* a *bool: "nil", "true" or "false".  Permission is a string type with no
\* enum validation, so a token outside the eight constants can be declared.
UserChoices ==
    { [Name |-> "reader", Permissions |-> <<"CONNECT", "SELECT">>,
       CreateSecret |-> "true", SecretName |-> ""],
      [Name |-> "writer", Permissions |-> <<"ALL">>,
       CreateSecret |-> "nil", SecretName |-> "custom"],
      [Name |-> "audit", Permissions |-> <<"CONNECT", "TRIGGER", "SELECT">>,
       CreateSecret |-> "true", SecretName |-> ""],
      [Name |-> "batch", Permissions |-> <<"USAGE">>,
       CreateSecret |-> "false", SecretName |-> ""] }

UserLists == UNION { [1..n -> UserChoices] : n \in 0..MaxUsers }

\* connectionRef: with no namespace the Database's own namespace is used.
ConnectionRefs == { [Name |-> "pg", Namespace |-> "ns2"],
                    [Name |-> "pg", Namespace |-> ""] }

DatabaseResource(ref, users) ==
    [Name |-> "app-db", Namespace |-> "ns1",
     Spec |-> [ConnectionRef |-> ref, DatabaseName |-> "app",
               Users |-> users, Owner |-> "", Encoding |-> ""]]

ConnectionResource ==
    [Name |-> "pg", Namespace |-> "ns2",
     Spec |-> [ClusterName |-> "pg1", ClusterNamespace |-> "",
               SuperUserSecret |-> [Name |-> "", Namespace |-> ""],
               HasSuperUserSecret |-> FALSE, UseAppSecret |-> "nil",
               Host |-> "", Port |-> 0, SSLMode |-> ""],
     Status |-> [Ready |-> FALSE, Message |-> "", LastChecked |-> 0,
                 Conditions |-> <<>>]]

EmptyDatabaseStatus ==
    [Ready |-> FALSE, DatabaseCreated |-> FALSE, UsersCreated |-> <<>>,
     Message |-> "", Conditions |-> <<>>]

\* A result that hands the failure to the caller whenever it asks for the
\* fast retry.
ResultEscalating(requeueAfter, requeue, err) ==
    [RequeueAfter |-> requeueAfter, Requeue |-> requeue,
     Err |-> IF requeueAfter = RequeueNotReadyMinutes /\ err = ""
             THEN "reconcile failed" ELSE err]

\* ctrl.Result and the error returned with it ("" is nil).
Result(requeueAfter, requeue, err) ==
    [RequeueAfter |-> requeueAfter, Requeue |-> requeue, Err |-> err]

VARIABLES
    impl,          \* the build of the Database reconciler
    databases,     \* store: Database resources by key (spec and metadata)
    dbStatus,      \* store: status subresource of each Database
    connections,   \* store: PostGresConnection resources by key
    secrets,       \* store: Secret objects by key
    pgDatabases,   \* server: pg_database, name -> owner and encoding
    pgRoles,       \* server: pg_roles, name -> password, may log in
    pgGrants,      \* server: privileges granted
    pc,            \* position of each Database reconciliation
    loc,           \* local variables of each Database reconciliation
    trace,         \* calls made by each Database reconciliation, in order
    ret,           \* what each Database key's last Reconcile returned
    cpc,           \* position of each Connection reconciliation
    cloc,          \* local variables of each Connection reconciliation
    ctrace,        \* calls made by each Connection reconciliation
    cret,          \* what each Connection key's last Reconcile returned
    ensureHist,    \* history: the ensureDatabase calls made for each key
    runs,          \* reconciliations started so far
    faults         \* failures the environment may still inject

vars == <<impl, databases, dbStatus, connections, secrets, pgDatabases,
          pgRoles, pgGrants, pc, loc, trace, ret, cpc, cloc, ctrace, cret,
          ensureHist, runs, faults>>

store == <<databases, dbStatus, connections, secrets>>
server == <<pgDatabases, pgRoles, pgGrants>>
connSide == <<cpc, cloc, ctrace, cret>>
dbSide == <<pc, loc, trace, ret, ensureHist>>

\* ------------------------------------------------------------ initial state
InitLoc ==
    [pgConn |-> ConnectionResource, handle |-> "none",
     databaseCreated |-> FALSE, usersCreated |-> <<>>, i |-> 0,
     sReady |-> FALSE, sDatabaseCreated |-> FALSE, sUsersCreated |-> <<>>,
     sMessage |-> ""]

\* Nothing returned yet.
NoReturn ==
    [Done |-> FALSE, RequeueAfter |-> 0, Requeue |-> FALSE, Err |-> "",
     StatusWritten |-> FALSE]

InitCLoc == [ready |-> FALSE, message |-> ""]

\* The CNPG cluster's superuser secret, in the cluster's namespace.
ClusterSecrets ==
    "ns2/pg1-superuser" :>
        [username |-> "postgres", password |-> "cnpg-generated", owner |-> ""]

\* pg_database when the operator starts: empty, or already holding the target
\* database, created by hand with another owner and encoding.
ServerCatalogs ==
    { << >>, "app" :> [owner |-> "dba", encoding |-> "LATIN1"] }

Init ==
    /\ impl \in Impls
    /\ \E ref \in ConnectionRefs, users \in UserLists :
           databases = ("ns1/app-db" :> DatabaseResource(ref, users))
    /\ dbStatus = ("ns1/app-db" :> EmptyDatabaseStatus)
    /\ connections = ("ns2/pg" :> ConnectionResource)
    /\ secrets = ClusterSecrets
    /\ pgDatabases \in ServerCatalogs
    /\ pgRoles = << >>
    /\ pgGrants = {}
    /\ pc = [d \in DbKeys |-> "idle"]
    /\ loc = [d \in DbKeys |-> InitLoc]
    /\ trace = [d \in DbKeys |-> <<>>]
    /\ ret = [d \in DbKeys |-> NoReturn]
    /\ cpc = [c \in ConnKeys |-> "idle"]
    /\ cloc = [c \in ConnKeys |-> InitCLoc]
    /\ ctrace = [c \in ConnKeys |-> <<>>]
    /\ cret = [c \in ConnKeys |-> NoReturn]
    /\ ensureHist = [d \in DbKeys |-> <<>>]
    /\ runs = 0
    /\ faults = MaxFaults

\* ------------------------------------------------------------- environment
\* A call to the store or to the server succeeds, or fails while the
\* environment still has failures to inject.
Inject(ok) ==
    IF ok THEN UNCHANGED faults ELSE faults > 0 /\ faults' = faults - 1

\* One call of a reconciliation: the operation, the index of the declared role
\* it is made for (0: none), its argument, and whether it succeeded.
Event(op, user, arg, ok) == [op |-> op, user |-> user, arg |-> arg, ok |-> ok]

Log(d, e) == trace' = [trace EXCEPT ![d] = Append(@, e)]

LogAll(d, es) == trace' = [trace EXCEPT ![d] = @ \o es]

\* The reconciliation of d leaves its step for `next`.
Goto(d, next) == pc' = [pc EXCEPT ![d] = next]

\* return r.statusService.UpdateDatabaseStatus(ctx, &database, ready, ...):
\* the arguments are evaluated, the status write is the next step.
ToStatus(d, l, ready, databaseCreated, usersCreated, message) ==
    /\ loc' = [loc EXCEPT ![d] =
                  [l EXCEPT !.sReady = ready,
                            !.sDatabaseCreated = databaseCreated,
                            !.sUsersCreated = usersCreated,
                            !.sMessage = message]]
    /\ Goto(d, "status")

\* A handler that returns the not-found error like any other.
HandleReconcileErrorStrict(err, msg) ==
    IF err = "" THEN Result(0, FALSE, "")
    ELSE IF err = "Conflict" THEN Result(0, TRUE, "")
    ELSE Result(0, FALSE, Wrap(msg, err))

\* ---------------------------------------------------------- pure functions
\* utils.HandleReconcileError: err is "" (nil), "NotFound", "Conflict" or
\* another error's text.
HandleReconcileError(err, msg) ==
    IF err = "" THEN Result(0, FALSE, "")
    ELSE IF err = "NotFound" THEN Result(0, FALSE, "")
    ELSE IF err = "Conflict" THEN Result(0, TRUE, "")
    ELSE Result(0, FALSE, Wrap(msg, err))

\* getPostGresConnection: the key of the referenced connection.
connKey(database) ==
    LET connNamespace ==
            IF database.Spec.ConnectionRef.Namespace = ""
            THEN database.Namespace
            ELSE database.Spec.ConnectionRef.Namespace
    IN  NamespacedName(connNamespace, database.Spec.ConnectionRef.Name)

\* os.Getenv("KUBERNETES_CLUSTER_DOMAIN"): unset in this deployment.
ClusterDomainEnv == ""

\* Client.getConnectionDetails: host and port.
getConnectionDetailsHost(pgConn) ==
    IF pgConn.Spec.Host # "" THEN pgConn.Spec.Host
    ELSE LET clusterNamespace ==
                 IF pgConn.Spec.ClusterNamespace = "" THEN pgConn.Namespace
                 ELSE pgConn.Spec.ClusterNamespace
             clusterDomain ==
                 IF ClusterDomainEnv = "" THEN "cluster.local"
                 ELSE ClusterDomainEnv
         IN  pgConn.Spec.ClusterName \o "-rw." \o clusterNamespace
                 \o ".svc." \o clusterDomain

getConnectionDetailsPort(pgConn) ==
    IF pgConn.Spec.Port = 0 THEN DefaultPort ELSE pgConn.Spec.Port

\* Client.getCredentials: the key of the secret read.
getCredentialsKey(pgConn) ==
    IF pgConn.Spec.HasSuperUserSecret
    THEN NamespacedName(
             IF pgConn.Spec.SuperUserSecret.Namespace = ""
             THEN pgConn.Namespace
             ELSE pgConn.Spec.SuperUserSecret.Namespace,
             pgConn.Spec.SuperUserSecret.Name)
    ELSE NamespacedName(
             IF pgConn.Spec.ClusterNamespace = "" THEN pgConn.Namespace
             ELSE pgConn.Spec.ClusterNamespace,
             pgConn.Spec.ClusterName \o "-superuser")

\* Client.Connect: sslMode and the connection string.
ConnectSSLMode(pgConn) ==
    IF pgConn.Spec.SSLMode = "" THEN "require" ELSE pgConn.Spec.SSLMode

ConnStr(host, port, username, password, sslMode) ==
    "host=" \o host \o " port=" \o ToString(port) \o " user=" \o username
        \o " password=" \o password \o " sslmode=" \o sslMode

\* connectToDatabase (monolithic): host and the key of the secret read.
connectToDatabaseHost(pgConn) ==
    IF pgConn.Spec.Host # "" THEN pgConn.Spec.Host
    ELSE pgConn.Spec.ClusterName \o "-rw"

connectToDatabaseKey(pgConn) ==
    IF pgConn.Spec.HasSuperUserSecret
    THEN NamespacedName(
             IF pgConn.Spec.SuperUserSecret.Namespace = ""
             THEN pgConn.Namespace
             ELSE pgConn.Spec.SuperUserSecret.Namespace,
             pgConn.Spec.SuperUserSecret.Name)
    ELSE NamespacedName(pgConn.Namespace,
                        pgConn.Spec.ClusterName \o "-superuser")

\* createDatabase: owner, encoding and the statement.
createDatabaseOwner(database) ==
    IF database.Spec.Owner = "" THEN "postgres" ELSE database.Spec.Owner

createDatabaseEncoding(database) ==
    IF database.Spec.Encoding = "" THEN "UTF8" ELSE database.Spec.Encoding

createQuery(database) ==
    "CREATE DATABASE " \o database.Spec.DatabaseName \o " WITH OWNER "
        \o createDatabaseOwner(database) \o " ENCODING '"
        \o createDatabaseEncoding(database) \o "'"

\* UserService.EnsureUser and ensureUser (monolithic): the statement.
createUserQuery(name, password) ==
    "CREATE USER " \o name \o " WITH ENCRYPTED PASSWORD '" \o password \o "'"

createRoleQuery(name, password) ==
    "CREATE ROLE " \o name \o " WITH LOGIN PASSWORD '" \o password \o "'"

\* A switch whose ALL case grants on the tables of the public schema.
grantQueryOnTables(permission, databaseName, name) ==
    CASE permission = PermissionAll ->
             "GRANT ALL PRIVILEGES ON ALL TABLES IN SCHEMA public TO " \o name
      [] permission = PermissionConnect ->
             "GRANT CONNECT ON DATABASE " \o databaseName \o " TO " \o name
      [] permission = PermissionCreate ->
             "GRANT CREATE ON DATABASE " \o databaseName \o " TO " \o name
      [] permission = PermissionUsage ->
             "GRANT USAGE ON SCHEMA public TO " \o name
      [] permission = PermissionSelect ->
             "GRANT SELECT ON ALL TABLES IN SCHEMA public TO " \o name
      [] permission = PermissionInsert ->
             "GRANT INSERT ON ALL TABLES IN SCHEMA public TO " \o name
      [] permission = PermissionUpdate ->
             "GRANT UPDATE ON ALL TABLES IN SCHEMA public TO " \o name
      [] permission = PermissionDelete ->
             "GRANT DELETE ON ALL TABLES IN SCHEMA public TO " \o name
      [] OTHER -> ""

\* UserService.GrantPermissions: the statement of a token, "" for a token the
\* switch does not know (default: return an error).
grantQuery(permission, databaseName, name) ==
    CASE permission = PermissionAll ->
             "GRANT ALL PRIVILEGES ON DATABASE " \o databaseName \o " TO " \o name
      [] permission = PermissionConnect ->
             "GRANT CONNECT ON DATABASE " \o databaseName \o " TO " \o name
      [] permission = PermissionCreate ->
             "GRANT CREATE ON DATABASE " \o databaseName \o " TO " \o name
      [] permission = PermissionUsage ->
             "GRANT USAGE ON SCHEMA public TO " \o name
      [] permission = PermissionSelect ->
             "GRANT SELECT ON ALL TABLES IN SCHEMA public TO " \o name
      [] permission = PermissionInsert ->
             "GRANT INSERT ON ALL TABLES IN SCHEMA public TO " \o name
      [] permission = PermissionUpdate ->
             "GRANT UPDATE ON ALL TABLES IN SCHEMA public TO " \o name
      [] permission = PermissionDelete ->
             "GRANT DELETE ON ALL TABLES IN SCHEMA public TO " \o name
      [] OTHER -> ""

\* grantPermissions (monolithic): the statement of a token, "" for a token the
\* switch skips (default: continue).
grantPermissionsQuery(permission, databaseName, name) ==
    CASE permission = PermissionConnect ->
             "GRANT CONNECT ON DATABASE " \o databaseName \o " TO " \o name
      [] permission = PermissionCreate ->
             "GRANT CREATE ON DATABASE " \o databaseName \o " TO " \o name
      [] permission = PermissionAll ->
             "GRANT ALL PRIVILEGES ON DATABASE " \o databaseName \o " TO " \o name
      [] OTHER -> ""

\* The first position of a sequence that holds "", or its length plus one.
FirstEmpty(qs) ==
    IF \E j \in 1..Len(qs) : qs[j] = ""
    THEN CHOOSE j \in 1..Len(qs) :
             qs[j] = "" /\ \A h \in 1..(j - 1) : qs[h] # ""
    ELSE Len(qs) + 1

\* A test that takes an unset flag for false.
WantsSecretWhenSet(user) == user.CreateSecret = "true"

\* if user.CreateSecret == nil || *user.CreateSecret
WantsSecret(user) == user.CreateSecret = "nil" \/ user.CreateSecret = "true"

\* SecretService.CreateUserSecret: the secret's name.
CreateUserSecretName(database, user) ==
    IF user.SecretName # "" THEN user.SecretName
    ELSE database.Name \o "-" \o user.Name

\* createUserSecret (monolithic): the secret's name.
createUserSecretName(database, user) ==
    IF user.SecretName # "" THEN user.SecretName
    ELSE database.Spec.DatabaseName \o "-" \o user.Name

\* A secret built without an owner reference.
NewSecretUnowned(database, user, password) ==
    [username |-> user.Name, password |-> password, owner |-> ""]

\* The Secret object both builds construct: data, and the controller owner
\* reference controllerutil.SetControllerReference sets (the owner's key).
NewSecret(database, user, password) ==
    [username |-> user.Name, password |-> password,
     owner |-> NamespacedName(database.Namespace, database.Name)]

\* A status service whose retry interval grows with the reconciliations
\* started so far.
StatusServiceRequeueAfterBackoff(ready) ==
    IF ~ready THEN RequeueNotReadyMinutes * runs ELSE 0

\* StatusService.UpdateDatabaseStatus and UpdatePostGresConnectionStatus:
\* the result after a successful status write.
StatusServiceRequeueAfter(ready) ==
    IF ~ready THEN RequeueNotReadyMinutes ELSE 0

\* An updateStatus that answers every outcome with the long interval.
updateStatusRequeueAfterLong(ready) == RequeueReadyMinutes

\* updateStatus (monolithic): the result after a successful status write.
updateStatusRequeueAfter(ready) ==
    IF ~ready THEN RequeueNotReadyMinutes ELSE RequeueReadyMinutes

\* metav1.Condition
Condition(type, status, reason, message, now) ==
    [Type |-> type, Status |-> status, Reason |-> reason, Message |-> message,
     LastTransitionTime |-> now]

\* A setter that appends the condition whatever the list holds.
SetStatusConditionAppend(conditions, new) == Append(conditions, new)

\* meta.SetStatusCondition: the condition of the same type is updated in
\* place (its transition time only when its status changes), else appended.
SetStatusCondition(conditions, new) ==
    IF \E j \in 1..Len(conditions) : conditions[j].Type = new.Type
    THEN LET j == CHOOSE h \in 1..Len(conditions) :
                      /\ conditions[h].Type = new.Type
                      /\ \A g \in 1..(h - 1) : conditions[g].Type # new.Type
             old == conditions[j]
         IN  [conditions EXCEPT ![j] =
                 [new EXCEPT !.LastTransitionTime =
                     IF old.Status # new.Status THEN new.LastTransitionTime
                     ELSE old.LastTransitionTime]]
    ELSE Append(conditions, new)

\* A status object that keeps what an earlier reconciliation had achieved.
UpdateDatabaseStatusObjectKeeping(old, ready, databaseCreated, usersCreated, message, now) ==
    [Ready |-> ready, DatabaseCreated |-> old.DatabaseCreated \/ databaseCreated,
     UsersCreated |-> IF usersCreated = <<>> THEN old.UsersCreated
                      ELSE usersCreated,
     Message |-> message,
     Conditions |->
        SetStatusCondition(old.Conditions,
            IF ready
            THEN Condition("Ready", "True", "Ready",
                           "Database and users are ready", now)
            ELSE Condition("Ready", "False", "Reconciling", message, now))]

\* StatusService.UpdateDatabaseStatus: the status object it sends.
UpdateDatabaseStatusObject(old, ready, databaseCreated, usersCreated, message, now) ==
    [Ready |-> ready, DatabaseCreated |-> databaseCreated,
     UsersCreated |-> usersCreated, Message |-> message,
     Conditions |->
        SetStatusCondition(old.Conditions,
            IF ready
            THEN Condition("Ready", "True", "Ready",
                           "Database and users are ready", now)
            ELSE Condition("Ready", "False", "Reconciling", message, now))]

\* updateStatus (monolithic): the status object it sends.
updateStatusObject(old, ready, databaseCreated, usersCreated, message, now) ==
    [Ready |-> ready, DatabaseCreated |-> databaseCreated,
     UsersCreated |-> usersCreated, Message |-> message,
     Conditions |->
        << Condition("Ready", IF ready THEN "True" ELSE "False",
                     "DatabaseReconciled", message, now) >>]

\* utils.GenerateSecurePassword and generatePassword: crypto/rand output,
\* named by the reconciliation, the call site and the role it is made for.
GeneratePassword(d, site, i) ==
    "pw-" \o d \o "-" \o ToString(runs) \o "-" \o site \o "-" \o ToString(i)

ServerError == "pq: server error"
StoreError == "the server is currently unable to handle the request"
DuplicateError == "pq: already exists"

\* ------------------------------------------- Database reconciler: the steps
\* A Reconcile that asks for the short retry with every error it returns.
ReturnRetrying(d, result, written) ==
    ret' = [ret EXCEPT ![d] =
               [Done |-> TRUE,
                RequeueAfter |-> IF result.Err # "" THEN RequeueNotReadyMinutes
                                 ELSE result.RequeueAfter,
                Requeue |-> result.Requeue, Err |-> result.Err,
                StatusWritten |-> written]]

\* Reconcile returns `result`; written: its status write succeeded.
Return(d, result, written) ==
    ret' = [ret EXCEPT ![d] =
               [Done |-> TRUE, RequeueAfter |-> result.RequeueAfter,
                Requeue |-> result.Requeue, Err |-> result.Err,
                StatusWritten |-> written]]

\* Reconcile, first step: r.Get(ctx, req.NamespacedName, &database).
ReconcileGet(d) ==
    /\ pc[d] = "idle"
    /\ runs < MaxRuns
    /\ runs' = runs + 1
    /\ loc' = [loc EXCEPT ![d] = InitLoc]
    /\ \/ /\ d \in DOMAIN databases
          /\ Goto(d, "getConn")
          /\ trace' = [trace EXCEPT ![d] = <<Event("get", 0, d, TRUE)>>]
          /\ ret' = [ret EXCEPT ![d] = NoReturn]
          /\ UNCHANGED faults
       \/ /\ d \notin DOMAIN databases
          /\ trace' = [trace EXCEPT ![d] = <<Event("get", 0, d, FALSE)>>]
          /\ Return(d, HandleReconcileError("NotFound", "Failed to get Database"),
                    FALSE)
          /\ UNCHANGED <<pc, faults>>
       \/ /\ d \in DOMAIN databases
          /\ Inject(FALSE)
          /\ trace' = [trace EXCEPT ![d] = <<Event("get", 0, d, FALSE)>>]
          /\ Return(d, IF impl = "svc"
                       THEN HandleReconcileError(StoreError, "Failed to get Database")
                       ELSE Result(0, FALSE, StoreError),
                    FALSE)
          /\ UNCHANGED pc
    /\ UNCHANGED <<impl, store, server, connSide, ensureHist>>

\* A lookup that stamps the connection it read.
getPostGresConnectionStamping(d) ==
    /\ pc[d] = "getConn"
    /\ LET key == connKey(databases[d])
           prefix == "failed to get PostGresConnection " \o key
       IN  \/ /\ key \in DOMAIN connections
              /\ loc' = [loc EXCEPT ![d].pgConn = connections[key]]
              /\ connections' =
                    [connections EXCEPT ![key].Status.LastChecked = runs]
              /\ Goto(d, "gate")
              /\ Log(d, Event("getConn", 0, key, TRUE))
              /\ UNCHANGED faults
           \/ /\ key \notin DOMAIN connections
              /\ ToStatus(d, loc[d], FALSE, FALSE, <<>>, Wrap(prefix, "not found"))
              /\ Log(d, Event("getConn", 0, key, FALSE))
              /\ UNCHANGED <<faults, connections>>
           \/ /\ key \in DOMAIN connections
              /\ Inject(FALSE)
              /\ ToStatus(d, loc[d], FALSE, FALSE, <<>>, Wrap(prefix, StoreError))
              /\ Log(d, Event("getConn", 0, key, FALSE))
              /\ UNCHANGED connections
    /\ UNCHANGED <<impl, databases, dbStatus, secrets, server, connSide, ret,
                   ensureHist, runs>>

\* getPostGresConnection, and Reconcile's answer when it fails.
getPostGresConnection(d) ==
    /\ pc[d] = "getConn"
    /\ LET key == connKey(databases[d])
           prefix == "failed to get PostGresConnection " \o key
       IN  \/ /\ key \in DOMAIN connections
              /\ loc' = [loc EXCEPT ![d].pgConn = connections[key]]
              /\ Goto(d, "gate")
              /\ Log(d, Event("getConn", 0, key, TRUE))
              /\ UNCHANGED faults
           \/ /\ key \notin DOMAIN connections
              /\ ToStatus(d, loc[d], FALSE, FALSE, <<>>, Wrap(prefix, "not found"))
              /\ Log(d, Event("getConn", 0, key, FALSE))
              /\ UNCHANGED faults
           \/ /\ key \in DOMAIN connections
              /\ Inject(FALSE)
              /\ ToStatus(d, loc[d], FALSE, FALSE, <<>>, Wrap(prefix, StoreError))
              /\ Log(d, Event("getConn", 0, key, FALSE))
    /\ UNCHANGED <<impl, store, server, connSide, ret, ensureHist, runs>>

\* A gate that lets every found connection through, Ready or not.
ReadinessGateOpen(d) ==
    /\ pc[d] = "gate"
    /\ Goto(d, "connect") /\ UNCHANGED loc
    /\ UNCHANGED <<impl, store, server, connSide, trace, ret, ensureHist,
                   runs, faults>>

\* Reconcile: if !pgConn.Status.Ready.
ReadinessGate(d) ==
    /\ pc[d] = "gate"
    /\ IF loc[d].pgConn.Status.Ready
       THEN Goto(d, "connect") /\ UNCHANGED loc
       ELSE ToStatus(d, loc[d], FALSE, FALSE, <<>>,
                     "PostgreSQL connection is not ready")
    /\ UNCHANGED <<impl, store, server, connSide, trace, ret, ensureHist,
                   runs, faults>>

\* The secret read by the credential lookup: "" when the read succeeds, else
\* the error.
SecretReadError(key, ok) ==
    IF ~ok THEN StoreError
    ELSE IF key \notin DOMAIN secrets THEN "not found"
    ELSE ""

\* Client.Connect: getConnectionDetails with getCredentials, sql.Open and
\* Ping.  readOk, pingOk: whether the store and the server answer.  err is
\* "" (nil) with the handle open; a failed ping closes the handle.
ClientConnect(pgConn, readOk, pingOk) ==
    LET key == getCredentialsKey(pgConn)
        readErr == SecretReadError(key, readOk)
        secret == secrets[key]
        connStr == ConnStr(getConnectionDetailsHost(pgConn),
                           getConnectionDetailsPort(pgConn),
                           secret.username, secret.password,
                           ConnectSSLMode(pgConn))
        none == [err |-> "", fault |-> FALSE, key |-> key, connStr |-> "",
                 handle |-> "none"]
    IN  IF readErr # ""
        THEN [none EXCEPT
                 !.err = Wrap("failed to get connection details",
                              Wrap("failed to get secret " \o key, readErr)),
                 !.fault = ~readOk]
        ELSE IF secret.username = "" \/ secret.password = ""
        THEN [none EXCEPT
                 !.err = Wrap("failed to get connection details",
                              "secret " \o key
                                  \o " is missing username or password")]
        ELSE IF ~pingOk
        THEN [none EXCEPT !.err = Wrap("failed to ping database", ServerError),
                          !.fault = TRUE, !.connStr = connStr,
                          !.handle = "closed"]
        ELSE [none EXCEPT !.connStr = connStr, !.handle = "open"]

\* connectToDatabase (monolithic): the secret read and sql.Open, which opens
\* no connection yet: the server is first contacted by the first query.
connectToDatabase(pgConn, readOk) ==
    LET key == connectToDatabaseKey(pgConn)
        readErr == SecretReadError(key, readOk)
        secret == secrets[key]
        port == IF pgConn.Spec.Port = 0 THEN DefaultPort ELSE pgConn.Spec.Port
        none == [err |-> "", fault |-> FALSE, key |-> key, connStr |-> "",
                 handle |-> "none"]
    IN  IF readErr # ""
        THEN [none EXCEPT
                 !.err = Wrap(IF pgConn.Spec.HasSuperUserSecret
                              THEN "failed to get secret " \o key
                              ELSE "failed to get CNPG superuser secret " \o key,
                              readErr),
                 !.fault = ~readOk]
        ELSE [none EXCEPT
                 !.connStr = ConnStr(connectToDatabaseHost(pgConn), port,
                                     secret.username, secret.password,
                                     "require"),
                 !.handle = "open"]

\* Reconcile: db, err := r.pgClient.Connect(ctx, pgConn) (refactored) or
\* r.connectToDatabase(ctx, pgConn) (monolithic); defer db.Close().
ReconcileConnect(d) ==
    /\ pc[d] = "connect"
    /\ \E readOk, pingOk \in BOOLEAN :
          LET out == IF impl = "svc"
                     THEN ClientConnect(loc[d].pgConn, readOk, pingOk)
                     ELSE connectToDatabase(loc[d].pgConn, readOk)
              l == [loc[d] EXCEPT !.handle = out.handle]
              events ==
                  <<Event("secret.get", 0, out.key, out.connStr # "")>>
                  \o (IF out.connStr = "" THEN <<>>
                      ELSE <<Event("connect", 0, out.connStr, out.err = "")>>)
                  \o (IF out.handle = "closed"
                      THEN <<Event("close", 0, "", TRUE)>> ELSE <<>>)
          IN  /\ Inject(~out.fault)
              /\ LogAll(d, events)
              /\ IF out.err = ""
                 THEN loc' = [loc EXCEPT ![d] = l] /\ Goto(d, "dbExists")
                 ELSE ToStatus(d, l, FALSE, FALSE, <<>>,
                               Wrap("Failed to connect to database", out.err))
    /\ UNCHANGED <<impl, store, server, connSide, ret, ensureHist, runs>>

Users(d) == databases[d].Spec.Users

\* One ensureDatabase call, for the history: whether the database existed
\* before it, the creation statements it issued, what it returned (the bool
\* and whether the error is non-nil), and whether the server failed it.
EnsureCall(before, creates, created, err, rejected) ==
    [before |-> before, creates |-> creates, created |-> created, err |-> err,
     rejected |-> rejected]

\* A catalog lookup that never finds the database.
datnameExistsNever(name) == FALSE

\* SELECT EXISTS(SELECT 1 FROM pg_database WHERE datname = $1)
datnameExists(name) == name \in DOMAIN pgDatabases

\* After ensureDatabase returned true: the role loop starts with role 1, or,
\* with no role declared, Reconcile goes on to the status write.
StartUsers(d, l) ==
    IF Len(Users(d)) = 0
    THEN ToStatus(d, l, TRUE, l.databaseCreated, <<>>, "Database and users ready")
    ELSE loc' = [loc EXCEPT ![d] = [l EXCEPT !.i = 1]] /\ Goto(d, "userExists")

\* EnsureDatabase / ensureDatabase, first half: databaseExists, and the
\* return when the database exists or the lookup fails.
databaseExists(d) ==
    /\ pc[d] = "dbExists"
    /\ LET name == databases[d].Spec.DatabaseName
           exists == datnameExists(name)
       IN  \E ok \in BOOLEAN :
              /\ Inject(ok)
              /\ Log(d, Event("query", 0, "pg_database " \o name, ok))
              /\ IF ~ok
                 THEN /\ ToStatus(d, loc[d], FALSE, FALSE, <<>>,
                          Wrap("Failed to ensure database",
                               Wrap("failed to check if database exists",
                                    ServerError)))
                      /\ ensureHist' = [ensureHist EXCEPT ![d] =
                            Append(@, EnsureCall(exists, 0, FALSE, TRUE, TRUE))]
                 ELSE IF exists
                 THEN /\ StartUsers(d, [loc[d] EXCEPT !.databaseCreated = TRUE])
                      /\ ensureHist' = [ensureHist EXCEPT ![d] =
                            Append(@, EnsureCall(TRUE, 0, TRUE, FALSE, FALSE))]
                 ELSE /\ Goto(d, "createDb")
                      /\ UNCHANGED <<loc, ensureHist>>
    /\ UNCHANGED <<impl, store, server, connSide, ret, runs>>

\* EnsureDatabase / ensureDatabase, second half: createDatabase.  The server
\* refuses to create a database that exists.
createDatabase(d) ==
    /\ pc[d] = "createDb"
    /\ LET database == databases[d]
           name == database.Spec.DatabaseName
       IN  \E accepted \in BOOLEAN :
              LET ok == accepted /\ name \notin DOMAIN pgDatabases
              IN  /\ Inject(accepted)
                  /\ Log(d, Event("exec", 0, createQuery(database), ok))
                  /\ ensureHist' = [ensureHist EXCEPT ![d] =
                        Append(@, EnsureCall(FALSE, 1, ok, ~ok, ~accepted))]
                  /\ IF ok
                     THEN /\ pgDatabases' = pgDatabases @@
                                (name :> [owner |-> createDatabaseOwner(database),
                                          encoding |-> createDatabaseEncoding(database)])
                          /\ StartUsers(d, [loc[d] EXCEPT !.databaseCreated = TRUE])
                     ELSE /\ UNCHANGED pgDatabases
                          /\ ToStatus(d, loc[d], FALSE, FALSE, <<>>,
                                Wrap("Failed to ensure database",
                                     Wrap("failed to create database",
                                          IF accepted THEN DuplicateError
                                          ELSE ServerError)))
    /\ UNCHANGED <<impl, store, pgRoles, pgGrants, connSide, ret, runs>>

\* Reconcile's answer when ensureUsers fails.
FailUsers(d, l, err) ==
    ToStatus(d, l, FALSE, l.databaseCreated, l.usersCreated,
             Wrap("Failed to ensure users", err))

\* UserService.userExists: SELECT EXISTS(SELECT 1 FROM pg_user WHERE usename
\* = $1).  The view pg_user lists the roles that can log in.
usenameExists(name) == name \in DOMAIN pgRoles /\ pgRoles[name].login

\* ensureUser (monolithic): SELECT EXISTS(SELECT 1 FROM pg_roles WHERE rolname
\* = $1).  The catalog pg_roles lists every role.
rolnameExists(name) == name \in DOMAIN pgRoles

\* EnsureUser / ensureUser, first half: the catalog lookup (pg_user in the
\* refactored build, pg_roles in the monolithic one; every role here can log
\* in, so the two agree), and the return when the role exists.
userExists(d) ==
    /\ pc[d] = "userExists"
    /\ LET i == loc[d].i
           user == Users(d)[i]
           exists == IF impl = "svc" THEN usenameExists(user.Name)
                     ELSE rolnameExists(user.Name)
           catalog == IF impl = "svc" THEN "pg_user " ELSE "pg_roles "
       IN  \E ok \in BOOLEAN :
              /\ Inject(ok)
              /\ Log(d, Event("query", i, catalog \o user.Name, ok))
              /\ IF ~ok
                 THEN FailUsers(d, loc[d],
                          Wrap("failed to ensure user " \o user.Name,
                               Wrap("failed to check if user exists", ServerError)))
                 ELSE IF ~exists
                 THEN Goto(d, "createUser") /\ UNCHANGED loc
                 ELSE IF impl = "svc"
                 THEN /\ loc' = [loc EXCEPT ![d].usersCreated =
                                    Append(@, user.Name)]
                      /\ Goto(d, "grant")
                 ELSE Goto(d, "grant") /\ UNCHANGED loc
    /\ UNCHANGED <<impl, store, server, connSide, ret, ensureHist, runs>>

\* EnsureUser / ensureUser, second half: the password and the creation
\* statement.  The server refuses to create a role that exists.
createUser(d) ==
    /\ pc[d] = "createUser"
    /\ LET i == loc[d].i
           user == Users(d)[i]
           password == GeneratePassword(d, "role", i)
           sql == IF impl = "svc" THEN createUserQuery(user.Name, password)
                  ELSE createRoleQuery(user.Name, password)
       IN  \E accepted \in BOOLEAN :
              LET ok == accepted /\ user.Name \notin DOMAIN pgRoles
              IN  /\ Inject(accepted)
                  /\ Log(d, Event("exec", i, sql, ok))
                  /\ IF ~ok
                     THEN /\ FailUsers(d, loc[d],
                                Wrap("failed to ensure user " \o user.Name,
                                     Wrap("failed to create user",
                                          IF accepted THEN DuplicateError
                                          ELSE ServerError)))
                          /\ UNCHANGED pgRoles
                     ELSE /\ pgRoles' = pgRoles @@
                                (user.Name :> [password |-> password,
                                              login |-> TRUE])
                          /\ Goto(d, "grant")
                          /\ IF impl = "svc"
                             THEN loc' = [loc EXCEPT ![d].usersCreated =
                                             Append(@, user.Name)]
                             ELSE UNCHANGED loc
    /\ UNCHANGED <<impl, store, pgDatabases, pgGrants, connSide, ret,
                   ensureHist, runs>>

\* The statements a grant loop sends: the first k of qs succeed, and the next
\* one fails when failed.
GrantEvents(i, qs, k, failed) ==
    [j \in 1..k |-> Event("exec", i, qs[j], TRUE)]
    \o (IF failed THEN <<Event("exec", i, qs[k + 1], FALSE)>> ELSE <<>>)

\* The first role after position i that asks for a secret, or the position
\* after the last role.
NextSecretUser(users, i) ==
    IF \E j \in (i + 1)..Len(users) : WantsSecret(users[j])
    THEN CHOOSE j \in (i + 1)..Len(users) :
             /\ WantsSecret(users[j])
             /\ \A h \in (i + 1)..(j - 1) : ~WantsSecret(users[h])
    ELSE Len(users) + 1

\* The refactored ensureUsers after EnsureUsers returned without error: the
\* loop over the roles that ask for a secret, from the role after i.
StartSecrets(d, l, i) ==
    LET j == NextSecretUser(Users(d), i)
    IN  IF j > Len(Users(d))
        THEN ToStatus(d, l, TRUE, l.databaseCreated, l.usersCreated,
                      "Database and users ready")
        ELSE loc' = [loc EXCEPT ![d] = [l EXCEPT !.i = j]] /\ Goto(d, "secret")

\* UserService.EnsureUsers: after role i's grants, the next role, or the
\* return to ensureUsers.
NextUserSvc(d, l) ==
    IF l.i < Len(Users(d))
    THEN loc' = [loc EXCEPT ![d] = [l EXCEPT !.i = l.i + 1]]
         /\ Goto(d, "userExists")
    ELSE StartSecrets(d, l, 0)

\* UserService.GrantPermissions for role i, and EnsureUsers' loop around it:
\* one statement per token in declared order; an unknown token is an error.
GrantPermissions(d) ==
    /\ pc[d] = "grant"
    /\ impl = "svc"
    /\ LET i == loc[d].i
           user == Users(d)[i]
           perms == user.Permissions
           qs == [j \in 1..Len(perms) |->
                     grantQuery(perms[j], databases[d].Spec.DatabaseName, user.Name)]
           stop == FirstEmpty(qs)
       IN  \E k \in 0..(stop - 1) :
              LET failed == k < stop - 1
                  err == IF failed
                         THEN Wrap("failed to grant " \o perms[k + 1] \o " permission",
                                   ServerError)
                         ELSE IF stop <= Len(perms)
                         THEN Wrap("unsupported permission", perms[stop])
                         ELSE ""
              IN  /\ Inject(~failed)
                  /\ LogAll(d, GrantEvents(i, qs, k, failed))
                  /\ pgGrants' = pgGrants \cup { qs[j] : j \in 1..k }
                  /\ IF err # ""
                     THEN FailUsers(d, loc[d],
                              Wrap("failed to grant permissions to user "
                                       \o user.Name, err))
                     ELSE NextUserSvc(d, loc[d])
    /\ UNCHANGED <<impl, store, pgDatabases, pgRoles, connSide, ret,
                   ensureHist, runs>>

\* ensureUsers (monolithic): role i is complete: its name is appended and the
\* loop goes on to the next role, or ensureUsers returns.
NextUserMono(d, l) ==
    LET done == [l EXCEPT !.usersCreated = Append(@, Users(d)[l.i].Name)]
    IN  IF l.i < Len(Users(d))
        THEN loc' = [loc EXCEPT ![d] = [done EXCEPT !.i = l.i + 1]]
             /\ Goto(d, "userExists")
        ELSE ToStatus(d, done, TRUE, done.databaseCreated, done.usersCreated,
                      "Database and users ready")

\* grantPermissions (monolithic) for role i, and ensureUsers' loop around
\* it: one statement per CONNECT, CREATE or ALL token; other tokens are
\* skipped.
grantPermissions(d) ==
    /\ pc[d] = "grant"
    /\ impl = "mono"
    /\ LET i == loc[d].i
           user == Users(d)[i]
           known(p) == grantPermissionsQuery(p, "", "") # ""
           perms == SelectSeq(user.Permissions, known)
           qs == [j \in 1..Len(perms) |->
                     grantPermissionsQuery(perms[j],
                         databases[d].Spec.DatabaseName, user.Name)]
       IN  \E k \in 0..Len(qs) :
              LET failed == k < Len(qs)
              IN  /\ Inject(~failed)
                  /\ LogAll(d, GrantEvents(i, qs, k, failed))
                  /\ pgGrants' = pgGrants \cup { qs[j] : j \in 1..k }
                  /\ IF failed
                     THEN FailUsers(d, loc[d],
                              Wrap("failed to grant permissions to user "
                                       \o user.Name,
                                   Wrap("failed to grant permission " \o perms[k + 1],
                                        ServerError)))
                     ELSE IF WantsSecret(user)
                     THEN Goto(d, "secretGet") /\ UNCHANGED loc
                     ELSE NextUserMono(d, loc[d])
    /\ UNCHANGED <<impl, store, pgDatabases, pgRoles, connSide, ret,
                   ensureHist, runs>>

\* controllerutil.SetControllerReference: "" when the reference is set, else
\* its error (the scheme does not know the owner's kind).
SetControllerReference(database, ok) ==
    IF ok THEN ""
    ELSE "no kind is registered for the type v1.Database in scheme"

AlreadyExistsError == "already exists"

\* client.Create of a Secret: "" when it is stored, else the error.  The
\* store never replaces an object that exists.
CreateError(key, ok) ==
    IF ~ok THEN StoreError
    ELSE IF key \in DOMAIN secrets THEN AlreadyExistsError
    ELSE ""

\* A materializer for which a secret that already exists is a failure.
CreateUserSecretReturnStrict(createErr) ==
    IF createErr = "" THEN ""
    ELSE Wrap("failed to create secret", createErr)

\* SecretService.CreateUserSecret: what it returns for the store's answer to
\* Create ("" is nil).
CreateUserSecretReturn(createErr) ==
    IF createErr = "" THEN ""
    ELSE IF createErr = AlreadyExistsError THEN ""
    ELSE Wrap("failed to create secret", createErr)

\* createUserSecret (monolithic): what it returns for the store's answer to
\* Create.
createUserSecretReturn(createErr) ==
    IF createErr = "" THEN "" ELSE Wrap("failed to create secret", createErr)

\* The refactored ensureUsers, second loop, for role i: GenerateSecurePassword
\* and SecretService.CreateUserSecret.
CreateUserSecret(d) ==
    /\ pc[d] = "secret"
    /\ impl = "svc"
    /\ LET i == loc[d].i
           database == databases[d]
           user == Users(d)[i]
           password == GeneratePassword(d, "secret", i)
           key == NamespacedName(database.Namespace,
                                 CreateUserSecretName(database, user))
       IN  \E refOk, ok \in BOOLEAN :
              LET refErr == SetControllerReference(database, refOk)
                  createErr == CreateError(key, ok)
                  err == IF refErr # ""
                         THEN Wrap("failed to set controller reference", refErr)
                         ELSE CreateUserSecretReturn(createErr)
              IN  /\ refOk \/ ok
                  /\ Inject(refOk /\ ok)
                  /\ IF refErr = ""
                     THEN Log(d, Event("secret.create", i, key, createErr = ""))
                     ELSE UNCHANGED trace
                  /\ secrets' = IF refErr = "" /\ createErr = ""
                                THEN secrets @@
                                     (key :> NewSecret(database, user, password))
                                ELSE secrets
                  /\ IF err # ""
                     THEN FailUsers(d, loc[d],
                              Wrap("failed to create secret for user " \o user.Name,
                                   err))
                     ELSE StartSecrets(d, loc[d], i)
    /\ UNCHANGED <<impl, databases, dbStatus, connections, server, connSide,
                   ret, ensureHist, runs>>

\* createUserSecret (monolithic), first half: the read of the existing
\* secret, and the return when it exists or the read fails.
createUserSecretGet(d) ==
    /\ pc[d] = "secretGet"
    /\ LET i == loc[d].i
           database == databases[d]
           user == Users(d)[i]
           key == NamespacedName(database.Namespace,
                                 createUserSecretName(database, user))
       IN  \E ok \in BOOLEAN :
              /\ Inject(ok)
              /\ Log(d, Event("secret.get", i, key, ok /\ key \in DOMAIN secrets))
              /\ IF ~ok
                 THEN FailUsers(d, loc[d],
                          Wrap("failed to create secret for user " \o user.Name,
                               Wrap("failed to get existing secret", StoreError)))
                 ELSE IF key \in DOMAIN secrets
                 THEN NextUserMono(d, loc[d])
                 ELSE Goto(d, "secretCreate") /\ UNCHANGED loc
    /\ UNCHANGED <<impl, store, server, connSide, ret, ensureHist, runs>>

\* createUserSecret (monolithic), second half: the password, the owner
\* reference and Create.
createUserSecretCreate(d) ==
    /\ pc[d] = "secretCreate"
    /\ LET i == loc[d].i
           database == databases[d]
           user == Users(d)[i]
           password == GeneratePassword(d, "secret", i)
           key == NamespacedName(database.Namespace,
                                 createUserSecretName(database, user))
       IN  \E refOk, ok \in BOOLEAN :
              LET refErr == SetControllerReference(database, refOk)
                  createErr == CreateError(key, ok)
                  err == IF refErr # ""
                         THEN Wrap("failed to set controller reference", refErr)
                         ELSE createUserSecretReturn(createErr)
              IN  /\ refOk \/ ok
                  /\ Inject(refOk /\ ok)
                  /\ IF refErr = ""
                     THEN Log(d, Event("secret.create", i, key, createErr = ""))
                     ELSE UNCHANGED trace
                  /\ secrets' = IF refErr = "" /\ createErr = ""
                                THEN secrets @@
                                     (key :> NewSecret(database, user, password))
                                ELSE secrets
                  /\ IF err # ""
                     THEN FailUsers(d, loc[d],
                              Wrap("failed to create secret for user " \o user.Name,
                                   err))
                     ELSE NextUserMono(d, loc[d])
    /\ UNCHANGED <<impl, databases, dbStatus, connections, server, connSide,
                   ret, ensureHist, runs>>

\* A return that leaves the handle as it is.
DeferredCloseNever(d) ==
    /\ UNCHANGED loc
    /\ trace' = [trace EXCEPT ![d] =
           Append(@, Event("status.update", 0, d, ret'[d].StatusWritten))]

\* The deferred db.Close() of Reconcile, run as it returns.
DeferredClose(d) ==
    IF loc[d].handle = "open"
    THEN /\ loc' = [loc EXCEPT ![d].handle = "closed"]
         /\ trace' = [trace EXCEPT ![d] =
                @ \o <<Event("status.update", 0, d, ret'[d].StatusWritten),
                       Event("close", 0, "", TRUE)>>]
    ELSE /\ UNCHANGED loc
         /\ trace' = [trace EXCEPT ![d] =
                Append(@, Event("status.update", 0, d, ret'[d].StatusWritten))]

\* StatusService.UpdateDatabaseStatus (refactored) and updateStatus
\* (monolithic) with the arguments Reconcile passed, and Reconcile's return.
\* A failed write is a conflict or another error of the store.
UpdateDatabaseStatus(d) ==
    /\ pc[d] = "status"
    /\ LET l == loc[d]
           object == IF impl = "svc"
                     THEN UpdateDatabaseStatusObject(dbStatus[d], l.sReady,
                              l.sDatabaseCreated, l.sUsersCreated, l.sMessage, runs)
                     ELSE updateStatusObject(dbStatus[d], l.sReady,
                              l.sDatabaseCreated, l.sUsersCreated, l.sMessage, runs)
       IN  \/ /\ UNCHANGED faults
              /\ dbStatus' = [dbStatus EXCEPT ![d] = object]
              /\ Return(d, Result(IF impl = "svc"
                                  THEN StatusServiceRequeueAfter(l.sReady)
                                  ELSE updateStatusRequeueAfter(l.sReady),
                                  FALSE, ""),
                        TRUE)
           \/ /\ Inject(FALSE)
              /\ UNCHANGED dbStatus
              /\ \E e \in {"Conflict", StoreError} :
                    Return(d, Result(0, FALSE,
                                     IF impl = "svc" THEN e
                                     ELSE Wrap("failed to update status", e)),
                           FALSE)
    /\ Goto(d, "idle")
    /\ DeferredClose(d)
    /\ UNCHANGED <<impl, databases, connections, secrets, server, connSide,
                   ensureHist, runs>>

\* ----------------------------------------- Connection reconciler: the steps
CReturn(c, result, written) ==
    cret' = [cret EXCEPT ![c] =
                [Done |-> TRUE, RequeueAfter |-> result.RequeueAfter,
                 Requeue |-> result.Requeue, Err |-> result.Err,
                 StatusWritten |-> written]]

\* PostGresConnectionReconciler.Reconcile, first step: r.Get.
ConnectionReconcileGet(c) ==
    /\ cpc[c] = "idle"
    /\ runs < MaxRuns
    /\ runs' = runs + 1
    /\ cloc' = [cloc EXCEPT ![c] = InitCLoc]
    /\ \/ /\ c \in DOMAIN connections
          /\ cpc' = [cpc EXCEPT ![c] = "validate"]
          /\ ctrace' = [ctrace EXCEPT ![c] = <<Event("get", 0, c, TRUE)>>]
          /\ cret' = [cret EXCEPT ![c] = NoReturn]
          /\ UNCHANGED faults
       \/ /\ c \notin DOMAIN connections
          /\ ctrace' = [ctrace EXCEPT ![c] = <<Event("get", 0, c, FALSE)>>]
          /\ CReturn(c, HandleReconcileError("NotFound",
                            "Failed to get PostGresConnection"), FALSE)
          /\ UNCHANGED <<cpc, faults>>
       \/ /\ c \in DOMAIN connections
          /\ Inject(FALSE)
          /\ ctrace' = [ctrace EXCEPT ![c] = <<Event("get", 0, c, FALSE)>>]
          /\ CReturn(c, HandleReconcileError(StoreError,
                            "Failed to get PostGresConnection"), FALSE)
          /\ UNCHANGED cpc
    /\ UNCHANGED <<impl, store, server, dbSide>>

\* validateConnection: Connect, then the deferred Close; Reconcile picks the
\* arguments of the status update from its result.
validateConnection(c) ==
    /\ cpc[c] = "validate"
    /\ \E readOk, pingOk \in BOOLEAN :
          LET out == ClientConnect(connections[c], readOk, pingOk)
              events ==
                  <<Event("secret.get", 0, out.key, out.connStr # "")>>
                  \o (IF out.connStr = "" THEN <<>>
                      ELSE <<Event("connect", 0, out.connStr, out.err = ""),
                             Event("close", 0, "", TRUE)>>)
          IN  /\ Inject(~out.fault)
              /\ ctrace' = [ctrace EXCEPT ![c] = @ \o events]
              /\ cloc' = [cloc EXCEPT ![c] =
                    IF out.err = ""
                    THEN [ready |-> TRUE,
                          message |-> "Connection validated successfully"]
                    ELSE [ready |-> FALSE,
                          message |-> Wrap("failed to connect to database",
                                           out.err)]]
    /\ cpc' = [cpc EXCEPT ![c] = "status"]
    /\ UNCHANGED <<impl, store, server, dbSide, cret, runs>>

\* A status object that keeps an earlier Ready.
UpdatePostGresConnectionStatusObjectSticky(old, ready, message, now) ==
    [old EXCEPT
        !.Ready = old.Ready \/ ready,
        !.Message = message,
        !.Conditions =
            SetStatusCondition(old.Conditions,
                IF ready
                THEN Condition("Ready", "True", "Ready", "Connection is ready", now)
                ELSE Condition("Ready", "False", "Reconciling", message, now))]

\* StatusService.UpdatePostGresConnectionStatus: the status object it sends.
UpdatePostGresConnectionStatusObject(old, ready, message, now) ==
    [old EXCEPT
        !.Ready = ready,
        !.Message = message,
        !.Conditions =
            SetStatusCondition(old.Conditions,
                IF ready
                THEN Condition("Ready", "True", "Ready", "Connection is ready", now)
                ELSE Condition("Ready", "False", "Reconciling", message, now))]

\* StatusService.UpdatePostGresConnectionStatus with the arguments Reconcile
\* passed, and Reconcile's return.
UpdatePostGresConnectionStatus(c) ==
    /\ cpc[c] = "status"
    /\ LET l == cloc[c]
       IN  \/ /\ UNCHANGED faults
              /\ connections' = [connections EXCEPT ![c].Status =
                    UpdatePostGresConnectionStatusObject(@, l.ready, l.message, runs)]
              /\ CReturn(c, Result(StatusServiceRequeueAfter(l.ready), FALSE, ""),
                         TRUE)
           \/ /\ Inject(FALSE)
              /\ UNCHANGED connections
              /\ \E e \in {"Conflict", StoreError} :
                    CReturn(c, Result(0, FALSE, e), FALSE)
    /\ cpc' = [cpc EXCEPT ![c] = "idle"]
    /\ ctrace' = [ctrace EXCEPT ![c] =
            Append(@, Event("status.update", 0, c, cret'[c].StatusWritten))]
    /\ UNCHANGED <<impl, databases, dbStatus, secrets, server, dbSide, cloc, runs>>

\* ------------------------------------------------------------- environment
\* The names under which the running build stores the declared roles' secrets.
RoleSecretKeys ==
    UNION { { NamespacedName(databases[d].Namespace,
                  IF impl = "svc"
                  THEN CreateUserSecretName(databases[d], Users(d)[i])
                  ELSE createUserSecretName(databases[d], Users(d)[i])) :
              i \in 1..Len(Users(d)) } :
            d \in DOMAIN databases }

\* Someone other than the operator creates a secret under such a name.
ForeignSecret == [username |-> "someone", password |-> "theirs", owner |-> ""]

EnvCreateSecret ==
    /\ faults > 0
    /\ faults' = faults - 1
    /\ \E key \in RoleSecretKeys \ DOMAIN secrets :
          secrets' = secrets @@ (key :> ForeignSecret)
    /\ UNCHANGED <<impl, databases, dbStatus, connections, server, dbSide,
                   connSide, runs>>

\* --------------------------------------------------------- specification
DatabaseStep(d) ==
    \/ ReconcileGet(d)
    \/ getPostGresConnection(d)
    \/ ReadinessGate(d)
    \/ ReconcileConnect(d)
    \/ databaseExists(d)
    \/ createDatabase(d)
    \/ userExists(d)
    \/ createUser(d)
    \/ GrantPermissions(d)
    \/ grantPermissions(d)
    \/ CreateUserSecret(d)
    \/ createUserSecretGet(d)
    \/ createUserSecretCreate(d)
    \/ UpdateDatabaseStatus(d)

ConnectionStep(c) ==
    \/ ConnectionReconcileGet(c)
    \/ validateConnection(c)
    \/ UpdatePostGresConnectionStatus(c)

Next ==
    \/ \E d \in DbKeys : DatabaseStep(d)
    \/ \E c \in ConnKeys : ConnectionStep(c)
    \/ EnvCreateSecret

Spec == Init /\ [][Next]_vars

\* ------------------------------------------------ servers that hold roles
\* The roles a server may hold before the operator first meets it: none, a
\* role of a declared name that can log in, or one that cannot (CREATE ROLE
\* without LOGIN).
RoleCatalogs ==
    { << >>,
      "reader" :> [password |-> "set-by-dba", login |-> TRUE],
      "reader" :> [password |-> "set-by-dba", login |-> FALSE] }

RoleInit ==
    /\ impl \in Impls
    /\ \E users \in UserLists :
           databases = ("ns1/app-db" :>
               DatabaseResource([Name |-> "pg", Namespace |-> "ns2"], users))
    /\ dbStatus = ("ns1/app-db" :> EmptyDatabaseStatus)
    /\ connections = ("ns2/pg" :> ConnectionResource)
    /\ secrets = ClusterSecrets
    /\ pgDatabases = << >>
    /\ pgRoles \in RoleCatalogs
    /\ pgGrants = {}
    /\ pc = [d \in DbKeys |-> "idle"]
    /\ loc = [d \in DbKeys |-> InitLoc]
    /\ trace = [d \in DbKeys |-> <<>>]
    /\ ret = [d \in DbKeys |-> NoReturn]
    /\ cpc = [c \in ConnKeys |-> "idle"]
    /\ cloc = [c \in ConnKeys |-> InitCLoc]
    /\ ctrace = [c \in ConnKeys |-> <<>>]
    /\ cret = [c \in ConnKeys |-> NoReturn]
    /\ ensureHist = [d \in DbKeys |-> <<>>]
    /\ runs = 0
    /\ faults = MaxFaults

RoleSpec == RoleInit /\ [][Next]_vars

\* ------------------------------------------- credential resolution inputs
\* The connection declarations the resolver is run on: cluster namespace set
\* or not, explicit secret reference (with or without a namespace) or none,
\* the app-secret flag, explicit host and port or none.
SecretRefs ==
    { [has |-> FALSE, ref |-> [Name |-> "", Namespace |-> ""]],
      [has |-> TRUE, ref |-> [Name |-> "creds", Namespace |-> ""]],
      [has |-> TRUE, ref |-> [Name |-> "creds", Namespace |-> "vault"]] }

ConnectionSpecs ==
    { [ClusterName |-> "pg1", ClusterNamespace |-> cns,
       SuperUserSecret |-> sr.ref, HasSuperUserSecret |-> sr.has,
       UseAppSecret |-> app, Host |-> h, Port |-> p, SSLMode |-> ""] :
      cns \in {"", "dbns"}, sr \in SecretRefs,
      app \in {"nil", "true", "false"}, h \in {"", "db.example.org"},
      p \in {0, 6432} }

\* The secrets of the cluster, in the connection's namespace and in the
\* cluster's, and the explicitly referenced ones: <<namespace, name, user>>.
CredentialSecrets ==
    { <<"ns2", "pg1-superuser", "postgres">>, <<"ns2", "pg1-app", "app">>,
      <<"dbns", "pg1-superuser", "postgres">>, <<"dbns", "pg1-app", "app">>,
      <<"ns2", "creds", "admin">>, <<"vault", "creds", "admin">> }

\* What is wrong with the stored secrets, and where: in every namespace or
\* only in the connection's own.
SecretDefects ==
    { [kind |-> "none", scope |-> "all"] }
    \cup [kind : {"absent", "noUsername", "noPassword"}, scope : {"all", "ns2"}]

\* string(secret.Data["username"]) is "" for a missing key and for an empty
\* value alike.
SecretStore(defect) ==
    LET hit(t) == defect.kind # "none" /\ defect.scope \in {"all", t[1]}
        kept == { t \in CredentialSecrets :
                    ~(defect.kind = "absent" /\ hit(t)) }
    IN  [k \in { NamespacedName(t[1], t[2]) : t \in kept } |->
            LET t == CHOOSE u \in kept : NamespacedName(u[1], u[2]) = k
            IN  [username |-> IF defect.kind = "noUsername" /\ hit(t)
                              THEN "" ELSE t[3],
                 password |-> IF defect.kind = "noPassword" /\ hit(t)
                              THEN "" ELSE t[3] \o "-password",
                 owner |-> ""]]

\* A Database without roles that refers to the connection, on an empty server.
ResolveInit ==
    /\ impl \in Impls
    /\ databases = ("ns1/app-db" :>
            DatabaseResource([Name |-> "pg", Namespace |-> "ns2"], <<>>))
    /\ dbStatus = ("ns1/app-db" :> EmptyDatabaseStatus)
    /\ \E spec \in ConnectionSpecs :
           connections = ("ns2/pg" :> [ConnectionResource EXCEPT !.Spec = spec])
    /\ \E defect \in SecretDefects : secrets = SecretStore(defect)
    /\ pgDatabases = << >>
    /\ pgRoles = << >>
    /\ pgGrants = {}
    /\ pc = [d \in DbKeys |-> "idle"]
    /\ loc = [d \in DbKeys |-> InitLoc]
    /\ trace = [d \in DbKeys |-> <<>>]
    /\ ret = [d \in DbKeys |-> NoReturn]
    /\ cpc = [c \in ConnKeys |-> "idle"]
    /\ cloc = [c \in ConnKeys |-> InitCLoc]
    /\ ctrace = [c \in ConnKeys |-> <<>>]
    /\ cret = [c \in ConnKeys |-> NoReturn]
    /\ ensureHist = [d \in DbKeys |-> <<>>]
    /\ runs = 0
    /\ faults = MaxFaults

\* The steps of a Database reconciliation that has no roles to provision.
ResolveDatabaseStep(d) ==
    \/ ReconcileGet(d)
    \/ getPostGresConnection(d)
    \/ ReadinessGate(d)
    \/ ReconcileConnect(d)
    \/ databaseExists(d)
    \/ createDatabase(d)
    \/ UpdateDatabaseStatus(d)

ResolveNext ==
    \/ \E d \in DbKeys : ResolveDatabaseStep(d)
    \/ \E c \in ConnKeys : ConnectionStep(c)

ResolveSpec == ResolveInit /\ [][ResolveNext]_vars

\* ------------------------------------------------- requeues and fairness
\* A queue that takes a request back only after an error.
RequeuedOnError(r) == r.Err # ""

\* The manager's work queue (SetupWithManager, ctrl.NewControllerManagedBy):
\* a request is put back on the queue when Reconcile returns an error, asks
\* for a requeue, or names an interval; ctrl.Result{} with a nil error is not
\* requeued.
Requeued(r) == r.Err # "" \/ r.Requeue \/ r.RequeueAfter > 0

\* The queue holds a request for a key: the resource exists and has not been
\* reconciled yet (the event of its creation), or the last reconciliation of
\* the key was requeued.
Queued(exists, r) == IF r.Done THEN Requeued(r) ELSE exists

\* A step of the worker of the Database controller for d: a step of the
\* reconciliation it is in, or the start of one the queue holds.
QueuedDatabaseStep(d) ==
    /\ pc[d] = "idle" => Queued(d \in DOMAIN databases, ret[d])
    /\ DatabaseStep(d)

QueuedConnectionStep(c) ==
    /\ cpc[c] = "idle" => Queued(c \in DOMAIN connections, cret[c])
    /\ ConnectionStep(c)

\* Someone deletes a Connection resource between two of its reconciliations.
EnvDeleteConnection(c) ==
    /\ c \in DOMAIN connections
    /\ cpc[c] = "idle"
    /\ connections' = [k \in DOMAIN connections \ {c} |-> connections[k]]
    /\ UNCHANGED <<impl, databases, dbStatus, secrets, server, dbSide,
                   connSide, runs, faults>>

RequeueNext ==
    \/ \E d \in DbKeys : DatabaseStep(d)
    \/ \E c \in ConnKeys : ConnectionStep(c)
    \/ EnvCreateSecret
    \/ \E c \in ConnKeys : EnvDeleteConnection(c)

\* Every worker that can take a step eventually takes one; reconciliations
\* started by other events (watches, resyncs) may happen but need not.
RequeueFairness ==
    /\ \A d \in DbKeys : WF_vars(QueuedDatabaseStep(d))
    /\ \A c \in ConnKeys : WF_vars(QueuedConnectionStep(c))

\* A Database with at most MaxRequeueUsers roles that names its connection
\* in full, on a server that holds nothing yet.
RequeueInit ==
    /\ impl \in Impls
    /\ \E n \in 0..MaxRequeueUsers : \E users \in [1..n -> UserChoices] :
           databases = ("ns1/app-db" :>
               DatabaseResource([Name |-> "pg", Namespace |-> "ns2"], users))
    /\ dbStatus = ("ns1/app-db" :> EmptyDatabaseStatus)
    /\ connections = ("ns2/pg" :> ConnectionResource)
    /\ secrets = ClusterSecrets
    /\ pgDatabases = << >>
    /\ pgRoles = << >>
    /\ pgGrants = {}
    /\ pc = [d \in DbKeys |-> "idle"]
    /\ loc = [d \in DbKeys |-> InitLoc]
    /\ trace = [d \in DbKeys |-> <<>>]
    /\ ret = [d \in DbKeys |-> NoReturn]
    /\ cpc = [c \in ConnKeys |-> "idle"]
    /\ cloc = [c \in ConnKeys |-> InitCLoc]
    /\ ctrace = [c \in ConnKeys |-> <<>>]
    /\ cret = [c \in ConnKeys |-> NoReturn]
    /\ ensureHist = [d \in DbKeys |-> <<>>]
    /\ runs = 0
    /\ faults = MaxFaults

RequeueSpec == RequeueInit /\ [][RequeueNext]_vars /\ RequeueFairness

\* ----------------------------------------- two Databases, one target
\* A second Database resource, stored under the other key, that declares the
\* same target database on the same connection.
SecondDatabaseResource(users) ==
    [DatabaseResource([Name |-> "pg", Namespace |-> "ns2"], users)
        EXCEPT !.Name = "ghost-db"]

\* The role lists of the two Databases: none, or the role reader.
PairUserLists ==
    { <<>> } \cup { <<u>> : u \in { v \in UserChoices : v.Name = "reader" } }

\* The Connection as an earlier run of the operator left it: validated and
\* Ready.
ReadyConnectionResource ==
    [ConnectionResource EXCEPT !.Status =
        UpdatePostGresConnectionStatusObject(@, TRUE,
            "Connection validated successfully", 0)]

\* The operator starts on a store that holds both Databases and the Ready
\* Connection; the server holds nothing yet.
PairInit ==
    /\ impl \in Impls
    /\ \E first, second \in PairUserLists :
           databases =
               ("ns1/app-db" :>
                    DatabaseResource([Name |-> "pg", Namespace |-> "ns2"], first))
               @@ ("ns1/ghost-db" :> SecondDatabaseResource(second))
    /\ dbStatus = [d \in DbKeys |-> EmptyDatabaseStatus]
    /\ connections = ("ns2/pg" :> ReadyConnectionResource)
    /\ secrets = ClusterSecrets
    /\ pgDatabases = << >>
    /\ pgRoles = << >>
    /\ pgGrants = {}
    /\ pc = [d \in DbKeys |-> "idle"]
    /\ loc = [d \in DbKeys |-> InitLoc]
    /\ trace = [d \in DbKeys |-> <<>>]
    /\ ret = [d \in DbKeys |-> NoReturn]
    /\ cpc = [c \in ConnKeys |-> "idle"]
    /\ cloc = [c \in ConnKeys |-> InitCLoc]
    /\ ctrace = [c \in ConnKeys |-> <<>>]
    /\ cret = [c \in ConnKeys |-> NoReturn]
    /\ ensureHist = [d \in DbKeys |-> <<>>]
    /\ runs = 0
    /\ faults = MaxFaults

PairSpec == PairInit /\ [][Next]_vars

\* ------------------------------------------------------------- properties
\* The Database reconciliation of d has returned after a successful status
\* write that carried `ready`.
DatabaseWrote(d, ready) ==
    /\ ret[d].Done
    /\ ret[d].StatusWritten
    /\ loc[d].sReady = ready

\* The same for the Connection reconciliation of c.
ConnectionWrote(c, ready) ==
    /\ cret[c].Done
    /\ cret[c].StatusWritten
    /\ cloc[c].ready = ready

\* C1: every reconciliation, of a Database or of a Connection, that ends with
\* ready=true and a successful status write returns a requeue interval of
\* 5 minutes.
C1_ReadyRequeuesAfterFiveMinutes ==
    /\ \A d \in DbKeys :
          DatabaseWrote(d, TRUE) =>
              /\ ret[d].RequeueAfter = RequeueReadyMinutes
              /\ ret[d].Err = ""
    /\ \A c \in ConnKeys :
          ConnectionWrote(c, TRUE) =>
              /\ cret[c].RequeueAfter = RequeueReadyMinutes
              /\ cret[c].Err = ""

\* C2: every reconciliation, of a Database or of a Connection, that ends with
\* ready=false and a successful status write returns a requeue interval of
\* exactly 1 minute with no error and no immediate requeue, whatever step
\* failed and however many reconciliations came before.
C2_NotReadyRequeuesAfterOneMinute ==
    /\ \A d \in DbKeys :
          DatabaseWrote(d, FALSE) =>
              /\ ret[d].RequeueAfter = RequeueNotReadyMinutes
              /\ ~ret[d].Requeue
              /\ ret[d].Err = ""
    /\ \A c \in ConnKeys :
          ConnectionWrote(c, FALSE) =>
              /\ cret[c].RequeueAfter = RequeueNotReadyMinutes
              /\ ~cret[c].Requeue
              /\ cret[c].Err = ""

\* A Database reconciliation that followed two earlier reconciliations, failed
\* at a statement sent to the server and wrote ready=false.
C2_Witness ==
    \E d \in DbKeys :
       /\ DatabaseWrote(d, FALSE)
       /\ runs = MaxRuns
       /\ \E j \in 1..Len(trace[d]) :
             trace[d][j].op = "exec" /\ ~trace[d][j].ok

\* Two ensureDatabase calls made in a row for the declaration of d, neither of
\* them failed by the server.
TwoCalls(d, j) ==
    /\ j \in 1..(Len(ensureHist[d]) - 1)
    /\ ~ensureHist[d][j].rejected
    /\ ~ensureHist[d][j + 1].rejected

BothReturnTrue(d, j) ==
    /\ ensureHist[d][j].created /\ ~ensureHist[d][j].err
    /\ ensureHist[d][j + 1].created /\ ~ensureHist[d][j + 1].err

MaterializesExisting(d) ==
    /\ pc[d] \in {"secret", "secretGet", "secretCreate"}
    /\ trace'[d] # trace[d]
    /\ faults' = faults
    /\ trace'[d][Len(trace'[d])].arg \in DOMAIN secrets

\* ensureUsers returns an error to Reconcile in this step.
EnsureUsersFails(d) == pc'[d] = "status" /\ ~loc'[d].sReady

\* C4: materializing a secret whose name already exists leaves the existing
\* secret's username, password and owner unchanged and reports success; no
\* step ever changes a stored secret, so the stored password stays the one
\* written by the first creation.
C4_ExistingSecretKeptAndSuccess ==
    [][ /\ \A k \in DOMAIN secrets :
              k \in DOMAIN secrets' /\ secrets'[k] = secrets[k]
        /\ \A d \in DbKeys :
              MaterializesExisting(d) => ~EnsureUsersFails(d) ]_vars

\* The key under which the running build stores the secret of d's role i.
UserSecretKey(d, i) ==
    NamespacedName(databases[d].Namespace,
        IF impl = "svc" THEN CreateUserSecretName(databases[d], Users(d)[i])
        ELSE createUserSecretName(databases[d], Users(d)[i]))

\* The operator created role i of d on the server and created its secret.
CreatedRoleAndSecret(d, i) ==
    /\ Users(d)[i].Name \in DOMAIN pgRoles
    /\ UserSecretKey(d, i) \in DOMAIN secrets
    /\ secrets[UserSecretKey(d, i)].owner = d

\* C5: for every role the operator created on the server and for which it
\* created a credential secret, the secret holds the role's name and the
\* password the role was created with.
C5_SecretPasswordIsRolePassword ==
    \A d \in DOMAIN databases : \A i \in 1..Len(Users(d)) :
       CreatedRoleAndSecret(d, i) =>
           /\ secrets[UserSecretKey(d, i)].username = Users(d)[i].Name
           /\ secrets[UserSecretKey(d, i)].password
                  = pgRoles[Users(d)[i].Name].password

\* The secret name the declaration of role `user` asks for.
DeclaredSecretName(database, user) ==
    IF user.SecretName # "" THEN user.SecretName
    ELSE database.Spec.DatabaseName \o "-" \o user.Name

\* C6: every secret a reconciliation creates for a role is named by the role's
\* explicit secret name when that is non-empty, and otherwise
\* "<spec.databaseName>-<roleName>", in the Database resource's namespace.
C6_SecretNamedAfterDatabaseName ==
    \A d \in DOMAIN databases : \A j \in 1..Len(trace[d]) :
       (trace[d][j].op = "secret.create" /\ trace[d][j].ok) =>
           trace[d][j].arg =
               NamespacedName(databases[d].Namespace,
                   DeclaredSecretName(databases[d], Users(d)[trace[d][j].user]))

\* Role provisioning of d's current reconciliation failed at role k: Reconcile
\* has evaluated the arguments of the status update that reports it.
ProvisioningFailedAt(d, k) ==
    /\ pc[d] = "status" \/ ret[d].Done
    /\ ~loc[d].sReady
    /\ k >= 1
    /\ loc[d].i = k

\* The names of the first n roles d declares, in declared order.
FirstNames(d, n) == [j \in 1..n |-> Users(d)[j].Name]

\* C7: when role provisioning fails at role k, the usersCreated list passed
\* to the status update, and written to status when the write succeeds, is
\* the list of the roles declared before k, in declared order, and so does
\* not hold role k.
C7_UsersCreatedHoldsCompletedRoles ==
    \A d \in DOMAIN databases : \A k \in 1..MaxUsers :
       ProvisioningFailedAt(d, k) =>
           /\ loc[d].sUsersCreated = FirstNames(d, k - 1)
           /\ ret[d].StatusWritten =>
                  dbStatus[d].UsersCreated = FirstNames(d, k - 1)

Tokens ==
    {PermissionConnect, PermissionCreate, PermissionUsage, PermissionSelect,
     PermissionInsert, PermissionUpdate, PermissionDelete, PermissionAll}

\* The event is a grant statement sent for the role it names.
IsGrant(d, e) ==
    /\ e.op = "exec"
    /\ e.user >= 1
    /\ \E p \in Tokens :
          e.arg = grantQuery(p, databases[d].Spec.DatabaseName,
                             Users(d)[e.user].Name)

\* The step of its role an event belongs to: 1 ensure role (the catalog lookup
\* and the creation statement), 2 grants, 3 secret materialization.
RoleStep(d, e) ==
    IF e.op \in {"secret.get", "secret.create"} THEN 3
    ELSE IF IsGrant(d, e) THEN 2
    ELSE 1

\* C8: within one Database reconciliation the roles are processed one at a
\* time in declared order, each role's steps run ensure role, then grants,
\* then secret materialization, before the next role starts; so when role k
\* fails, the secret of every earlier role that asks for one exists.
C8_RolesProcessedOneAtATime ==
    \A d \in DOMAIN databases :
       /\ \A a, b \in 1..Len(trace[d]) :
             (a < b /\ trace[d][a].user >= 1 /\ trace[d][b].user >= 1) =>
                 /\ trace[d][a].user <= trace[d][b].user
                 /\ trace[d][a].user = trace[d][b].user =>
                        RoleStep(d, trace[d][a]) <= RoleStep(d, trace[d][b])
       /\ \A k \in 1..MaxUsers :
             ProvisioningFailedAt(d, k) =>
                 \A j \in 1..(k - 1) :
                    WantsSecret(Users(d)[j]) =>
                        UserSecretKey(d, j) \in DOMAIN secrets

\* The step of Reconcile an event belongs to: 1 read of the Database,
\* 2 connection lookup, 3 connect (credentials, open, ping), 4 ensure
\* database, 5 role provisioning, 6 status write.  (Closing the handle is not
\* a step of the order: it follows a failed ping and the return.)
ReconcileStep(e) ==
    CASE e.op = "get" -> 1
      [] e.op = "getConn" -> 2
      [] e.op = "connect" -> 3
      [] e.op = "secret.get" /\ e.user = 0 -> 3
      [] e.op \in {"query", "exec"} /\ e.user = 0 -> 4
      [] e.op = "status.update" -> 6
      [] OTHER -> 5

IsStatement(e) == e.op \in {"query", "exec"}

\* C9: within one Database reconciliation the steps run in the order
\* connection lookup, readiness gate, connect, ensure database, role
\* provisioning, status write; no statement is issued unless the connection
\* was found and Ready, no role statement unless ensure-database returned
\* true, and once provisioning failed at role k no statement has been issued
\* and no secret created for a role declared after k.
C9_StepsInOrderAndNoneAfterFailure ==
    \A d \in DOMAIN databases :
       /\ \A a, b \in 1..Len(trace[d]) :
             (a < b /\ trace[d][a].op # "close" /\ trace[d][b].op # "close") =>
                 ReconcileStep(trace[d][a]) <= ReconcileStep(trace[d][b])
       /\ \A a \in 1..Len(trace[d]) :
             /\ IsStatement(trace[d][a]) =>
                    /\ connKey(databases[d]) \in DOMAIN connections
                    /\ loc[d].pgConn.Status.Ready
                    /\ loc[d].handle # "none"
             /\ (IsStatement(trace[d][a]) /\ trace[d][a].user >= 1) =>
                    loc[d].databaseCreated
       /\ \A k \in 1..MaxUsers :
             ProvisioningFailedAt(d, k) =>
                 \A a \in 1..Len(trace[d]) :
                    trace[d][a].op \in {"query", "exec", "secret.create"} =>
                        trace[d][a].user <= k

\* The connection d refers to is not in the store, the reconciliation of d
\* looked it up and has returned.
ReturnedWithoutConnection(d) ==
    /\ connKey(databases[d]) \notin DOMAIN connections
    /\ ret[d].Done
    /\ \E j \in 1..Len(trace[d]) : trace[d][j].op = "getConn"

\* The status write and the result the claim describes.
DegradedForLookup(d) ==
    /\ ~dbStatus[d].Ready
    /\ ~dbStatus[d].DatabaseCreated
    /\ dbStatus[d].UsersCreated = <<>>
    /\ dbStatus[d].Message =
           "failed to get PostGresConnection "
               \o NamespacedName(databases[d].Namespace,
                                 databases[d].Spec.ConnectionRef.Name)
               \o ": not found"
    /\ ret[d].RequeueAfter = RequeueNotReadyMinutes
    /\ ~ret[d].Requeue
    /\ ret[d].Err = ""

\* C10 (as stated): if the connection a Database refers to cannot be found,
\* the reconciliation writes status ready=false, databaseCreated=false, an
\* empty usersCreated and a message carrying the lookup error, and returns a
\* 1-minute requeue with nil error.
C10_MissingConnectionDegradesAndRequeues ==
    \A d \in DOMAIN databases :
       ReturnedWithoutConnection(d) =>
           ret[d].StatusWritten /\ DegradedForLookup(d)

\* C10 (amended): the same when the status write succeeds; when the status
\* write fails, Reconcile returns the write's error with no requeue interval.
C10_MissingConnectionDegradesWhenWritten ==
    \A d \in DOMAIN databases :
       ReturnedWithoutConnection(d) =>
           IF ret[d].StatusWritten
           THEN DegradedForLookup(d)
           ELSE /\ ret[d].Err # ""
                /\ ret[d].RequeueAfter = 0
                /\ ~ret[d].Requeue

\* A reconciliation that found no connection, wrote the status and returned.
C10_Witness ==
    \E d \in DOMAIN databases :
       /\ ReturnedWithoutConnection(d)
       /\ ret[d].StatusWritten
       /\ ret[d].RequeueAfter = RequeueNotReadyMinutes

\* The reconciliation of d found the connection it refers to and read a
\* status that is not Ready.
FoundNotReady(d) ==
    /\ \E j \in 1..Len(trace[d]) :
          trace[d][j].op = "getConn" /\ trace[d][j].ok
    /\ ~loc[d].pgConn.Status.Ready

\* No handle was opened, no statement issued and no secret read or created
\* by the reconciliation of d.
TouchedNothing(d) ==
    /\ loc[d].handle = "none"
    /\ \A j \in 1..Len(trace[d]) :
          trace[d][j].op \in {"get", "getConn", "status.update"}

\* The status and result of a reconciliation stopped by the readiness gate.
WaitingOnConnection(d) ==
    /\ ~dbStatus[d].Ready
    /\ dbStatus[d].Message = "PostgreSQL connection is not ready"
    /\ ret[d].RequeueAfter = RequeueNotReadyMinutes
    /\ ~ret[d].Requeue
    /\ ret[d].Err = ""

\* C11 (as stated): if the referenced connection exists but is not Ready, the
\* Database reconciliation opens no handle, issues no statement, creates no
\* secret, writes ready=false and returns a 1-minute requeue with nil error.
C11_NotReadyConnectionWaitsAndRequeues ==
    \A d \in DOMAIN databases :
       FoundNotReady(d) =>
           /\ TouchedNothing(d)
           /\ ret[d].Done => ret[d].StatusWritten /\ WaitingOnConnection(d)

\* C11 (amended): the same when the status write succeeds; when the status
\* write fails, Reconcile returns the write's error with no requeue interval,
\* still without a handle, a statement or a secret.
C11_NotReadyConnectionWaitsWhenWritten ==
    \A d \in DOMAIN databases :
       FoundNotReady(d) =>
           /\ TouchedNothing(d)
           /\ ret[d].Done =>
                  IF ret[d].StatusWritten
                  THEN WaitingOnConnection(d)
                  ELSE /\ ret[d].Err # ""
                       /\ ret[d].RequeueAfter = 0
                       /\ ~ret[d].Requeue

\* A reconciliation that found a connection that is not Ready, wrote the
\* status and returned, while the server holds nothing and no secret of a
\* role exists.
C11_Witness ==
    \E d \in DOMAIN databases :
       /\ FoundNotReady(d)
       /\ ret[d].Done
       /\ ret[d].StatusWritten
       /\ WaitingOnConnection(d)
       /\ pgRoles = << >>

\* The handles a reconciliation opened and has not closed, from its events.
OpenHandles(tr) ==
    Cardinality({j \in 1..Len(tr) : tr[j].op = "connect"})
        - Cardinality({j \in 1..Len(tr) : tr[j].op = "close"})

\* Every connect that failed is followed at once by the close of its handle.
FailedConnectClosed(tr) ==
    \A j \in 1..Len(tr) :
       (tr[j].op = "connect" /\ ~tr[j].ok) =>
           j < Len(tr) /\ tr[j + 1].op = "close"

LastStep(tr) ==
    IF tr[Len(tr)].op = "close" THEN tr[Len(tr) - 1] ELSE tr[Len(tr)]

\* The reconciliation read its resource and one of its steps failed.
BusinessFailure(d) ==
    /\ trace[d][1].ok
    /\ ~loc[d].sReady

\* C13: Reconcile (Database and Connection) returns a non-nil error only when
\* reading the reconciled resource or writing its status fails; every failure
\* of credential resolution, connect, ensure database, ensure role, grant or
\* secret materialization becomes a status update with ready=false and the
\* failure's message, returned with nil error.
C13_ErrorOnlyFromReadOrStatusWrite ==
    /\ \A d \in DbKeys :
          ret[d].Done =>
              /\ ret[d].Err # "" =>
                     /\ LastStep(trace[d]).op \in {"get", "status.update"}
                     /\ ~LastStep(trace[d]).ok
              /\ trace[d][1].ok => LastStep(trace[d]).op = "status.update"
              /\ (BusinessFailure(d) /\ ret[d].StatusWritten) =>
                     /\ ret[d].Err = ""
                     /\ ~dbStatus[d].Ready
                     /\ dbStatus[d].Message = loc[d].sMessage
                     /\ loc[d].sMessage \notin {"", "Database and users ready"}
    /\ \A c \in ConnKeys :
          cret[c].Done =>
              /\ cret[c].Err # "" =>
                     /\ LastStep(ctrace[c]).op \in {"get", "status.update"}
                     /\ ~LastStep(ctrace[c]).ok
              /\ ctrace[c][1].ok => LastStep(ctrace[c]).op = "status.update"
              /\ (ctrace[c][1].ok /\ ~cloc[c].ready /\ cret[c].StatusWritten) =>
                     /\ cret[c].Err = ""
                     /\ ~connections[c].Status.Ready
                     /\ connections[c].Status.Message = cloc[c].message
                     /\ \E j \in 1..Len(ctrace[c]) :
                           /\ ctrace[c][j].op \in {"secret.get", "connect"}
                           /\ ~ctrace[c][j].ok

\* A Database reconciliation whose grant or secret step failed, wrote
\* ready=false and returned nil error.
C13_Witness ==
    \E d \in DOMAIN databases :
       /\ ret[d].Done
       /\ ret[d].StatusWritten
       /\ ret[d].Err = ""
       /\ BusinessFailure(d)
       /\ loc[d].databaseCreated
       /\ \E j \in 1..Len(trace[d]) :
             trace[d][j].op \in {"exec", "secret.create"} /\ trace[d][j].user > 0

\* The credential reads made for connection c: by its own reconciliation and
\* by the reconciliations of the Databases that refer to it.
CredentialReads(c) ==
    { ctrace[c][j].arg : j \in { k \in 1..Len(ctrace[c]) :
                                    ctrace[c][k].op = "secret.get" } }
    \cup UNION { { trace[d][j].arg :
                     j \in { k \in 1..Len(trace[d]) :
                               /\ trace[d][k].op = "secret.get"
                               /\ trace[d][k].user = 0 } } :
                 d \in { e \in DOMAIN databases : connKey(databases[e]) = c } }

Namespaces == {"ns1", "ns2", "dbns", "vault"}

\* The secret name the specification selects when no secret is referenced.
DefaultSecretName(pgConn) ==
    pgConn.Spec.ClusterName
        \o (IF pgConn.Spec.UseAppSecret = "true" THEN "-app" ELSE "-superuser")

\* C14: with no explicit credential-secret reference, the credentials are
\* read from the secret named "<cluster>-app" when the connection's
\* useAppSecret flag is true, and from "<cluster>-superuser" when the flag is
\* unset or false.
C14_AppFlagSelectsAppSecret ==
    \A c \in DOMAIN connections :
       ~connections[c].Spec.HasSuperUserSecret =>
           CredentialReads(c) \subseteq
               { NamespacedName(ns, DefaultSecretName(connections[c])) :
                 ns \in Namespaces }

\* The host and port the specification resolves for a connection.
DeclaredHost(pgConn) ==
    IF pgConn.Spec.Host # "" THEN pgConn.Spec.Host
    ELSE pgConn.Spec.ClusterName \o "-rw."
             \o (IF pgConn.Spec.ClusterNamespace # ""
                 THEN pgConn.Spec.ClusterNamespace ELSE pgConn.Namespace)
             \o ".svc.cluster.local"

DeclaredPort(pgConn) ==
    IF pgConn.Spec.Port # 0 THEN pgConn.Spec.Port ELSE DefaultPort

\* Every handle in the events tr was opened on the declared host and port of
\* pgConn, with the credentials of the secret read just before.
OpenedOnDeclaredEndpoint(tr, pgConn) ==
    \A j \in 2..Len(tr) :
       tr[j].op = "connect" =>
           /\ tr[j - 1].op = "secret.get"
           /\ tr[j].arg =
                  ConnStr(DeclaredHost(pgConn), DeclaredPort(pgConn),
                          secrets[tr[j - 1].arg].username,
                          secrets[tr[j - 1].arg].password, "require")

\* C15: credential resolution returns the explicit host when one is set and
\* otherwise "<cluster>-rw.<namespace>.svc.<cluster-domain>" (namespace: the
\* cluster namespace, else the connection's own; cluster-domain
\* "cluster.local"), and the explicit port when non-zero, otherwise 5432.
C15_HostAndPortDefaults ==
    /\ \A c \in DOMAIN connections :
          OpenedOnDeclaredEndpoint(ctrace[c], connections[c])
    /\ \A d \in DOMAIN databases :
          connKey(databases[d]) \in DOMAIN connections =>
              OpenedOnDeclaredEndpoint(trace[d],
                                       connections[connKey(databases[d])])

\* The secret under key cannot serve as credentials: it does not exist, or
\* its username or password is missing or empty.
Unusable(key) ==
    \/ key \notin DOMAIN secrets
    \/ secrets[key].username = ""
    \/ secrets[key].password = ""

\* In the events tr every credential read that could not be fetched or read
\* an unusable secret failed and was followed by nothing but the status write.
ResolutionFailsClosed(tr) ==
    \A j \in 1..Len(tr) :
       (/\ tr[j].op = "secret.get"
        /\ tr[j].user = 0
        /\ (~tr[j].ok \/ Unusable(tr[j].arg))) =>
           /\ ~tr[j].ok
           /\ j < Len(tr) => tr[j + 1].op = "status.update"

\* C16: credential resolution fails with an error, and no connection to the
\* server is attempted, whenever the selected secret cannot be fetched or its
\* username or password key is missing or empty, on every path by which a
\* reconciler obtains credentials.
C16_UnusableSecretFailsResolution ==
    /\ \A c \in DOMAIN connections :
          /\ ResolutionFailsClosed(ctrace[c])
          /\ (\E j \in 1..Len(ctrace[c]) :
                 ctrace[c][j].op = "secret.get" /\ Unusable(ctrace[c][j].arg))
                => ~cloc[c].ready
    /\ \A d \in DOMAIN databases :
          /\ ResolutionFailsClosed(trace[d])
          /\ (\E j \in 1..Len(trace[d]) :
                 /\ trace[d][j].op = "secret.get"
                 /\ trace[d][j].user = 0
                 /\ Unusable(trace[d][j].arg))
                => ~loc[d].sReady

\* The Connection reconciliation of c resolved credentials and its ping was
\* answered.
Validated(c) ==
    \E j \in 2..Len(ctrace[c]) :
       /\ ctrace[c][j].op = "connect" /\ ctrace[c][j].ok
       /\ ctrace[c][j - 1].op = "secret.get" /\ ctrace[c][j - 1].ok

\* The messages of the failures a validation of c can meet, by the step that
\* failed.
ValidationFailureMessages(c) ==
    LET key == ctrace[c][2].arg
        details(e) == Wrap("failed to connect to database",
                           Wrap("failed to get connection details", e))
    IN  IF ctrace[c][2].ok
        THEN { Wrap("failed to connect to database",
                    Wrap("failed to ping database", ServerError)) }
        ELSE { details(Wrap("failed to get secret " \o key, e)) :
               e \in {"not found", StoreError} }
             \cup { details("secret " \o key
                                \o " is missing username or password") }

\* C17: a Connection reconciliation writes ready=true exactly when credential
\* resolution and the connect-and-ping both succeeded in that same
\* reconciliation; on any failure it writes ready=false with the failure's
\* message as the status message.
C17_ReadyIffValidatedNow ==
    \A c \in DOMAIN connections :
       (cret[c].Done /\ cret[c].StatusWritten) =>
           /\ connections[c].Status.Ready <=> Validated(c)
           /\ ~Validated(c) =>
                  connections[c].Status.Message \in ValidationFailureMessages(c)

\* A Connection that was Ready, so that a Database became Ready through it,
\* and whose next reconciliation met a ping failure and wrote ready=false.
C17_Witness ==
    \E c \in DOMAIN connections :
       /\ cret[c].Done
       /\ cret[c].StatusWritten
       /\ ~connections[c].Status.Ready
       /\ \E j \in 1..Len(ctrace[c]) :
             ctrace[c][j].op = "connect" /\ ~ctrace[c][j].ok
       /\ \E d \in DOMAIN databases : dbStatus[d].Ready

\* The one statement that grants everything on the whole database.
GrantAllOnDatabase(d, i) ==
    "GRANT ALL PRIVILEGES ON DATABASE " \o databases[d].Spec.DatabaseName
        \o " TO " \o Users(d)[i].Name

\* The grant step of d is about to run for a role declared with exactly [ALL].
GrantStepForAll(d) ==
    /\ pc[d] = "grant"
    /\ Users(d)[loc[d].i].Permissions = <<PermissionAll>>

\* C18: for a role whose declared permission list is exactly [ALL], the grant
\* step issues exactly one grant statement, and that statement grants ALL
\* PRIVILEGES on the whole database.
C18_AllIsOneDatabaseGrant ==
    [][\A d \in DOMAIN databases :
          (GrantStepForAll(d) /\ pc'[d] # "grant") =>
              \E ok \in BOOLEAN :
                 trace'[d] = Append(trace[d],
                     Event("exec", loc[d].i, GrantAllOnDatabase(d, loc[d].i), ok))
      ]_vars

\* A role declared with [ALL] whose grant step ran and was answered: the
\* server holds the grant and the reconciliation went on.
C18_Witness ==
    \E d \in DOMAIN databases :
       \E i \in 1..Len(Users(d)) :
          /\ Users(d)[i].Permissions = <<PermissionAll>>
          /\ GrantAllOnDatabase(d, i) \in pgGrants
          /\ \E j \in 1..Len(trace[d]) :
                /\ trace[d][j] = Event("exec", i, GrantAllOnDatabase(d, i), TRUE)
          /\ pc[d] # "grant"

\* The reconciliation of d failed before any role was touched: at the
\* connection lookup, the readiness gate, connect or ensure-database.
EarlyFailure(d) ==
    /\ ~loc[d].sReady
    /\ \A j \in 1..Len(trace[d]) : trace[d][j].user = 0

\* C19: after every Database reconciliation that writes status, the status
\* fields equal that reconciliation's own outcome and carry nothing over from
\* earlier ones: one that fails at connection lookup, the readiness gate,
\* connect or ensure-database writes databaseCreated=false and an empty
\* usersCreated whatever an earlier reconciliation had written.
C19_StatusIsLastOutcome ==
    [][\A d \in DOMAIN databases :
          (pc[d] = "status" /\ pc'[d] = "idle" /\ ret'[d].StatusWritten) =>
              /\ dbStatus'[d].Ready = loc[d].sReady
              /\ dbStatus'[d].DatabaseCreated = loc[d].sDatabaseCreated
              /\ dbStatus'[d].UsersCreated = loc[d].sUsersCreated
              /\ dbStatus'[d].Message = loc[d].sMessage
              /\ EarlyFailure(d) =>
                     /\ ~dbStatus'[d].Ready
                     /\ ~dbStatus'[d].DatabaseCreated
                     /\ dbStatus'[d].UsersCreated = <<>>
      ]_vars

\* A reconciliation that spent the only fault on its connect or
\* ensure-database step and wrote databaseCreated=false with no roles, after
\* an earlier reconciliation of the same Database (fault-free, all roles
\* declared with [ALL]) had created the database and every role and so had
\* written ready=true, databaseCreated=true and the full list.
C19_Witness ==
    \E d \in DOMAIN databases :
       /\ ret[d].Done
       /\ ret[d].StatusWritten
       /\ EarlyFailure(d)
       /\ ~dbStatus[d].DatabaseCreated
       /\ dbStatus[d].UsersCreated = <<>>
       /\ faults = 0
       /\ \E j \in 1..Len(trace[d]) :
             trace[d][j].op \in {"connect", "query", "exec"} /\ ~trace[d][j].ok
       /\ Len(ensureHist[d]) >= 1
       /\ Users(d) # <<>>
       /\ \A i \in 1..Len(Users(d)) :
             /\ Users(d)[i].Permissions = <<PermissionAll>>
             /\ Users(d)[i].Name \in DOMAIN pgRoles

\* What the server and the store hold for d, the secrets aside: the status
\* lists every declared role, and the database and the roles exist.
AllProvisioned(d) ==
    /\ dbStatus[d].DatabaseCreated
    /\ dbStatus[d].UsersCreated = FirstNames(d, Len(Users(d)))
    /\ databases[d].Spec.DatabaseName \in DOMAIN pgDatabases
    /\ \A i \in 1..Len(Users(d)) : Users(d)[i].Name \in DOMAIN pgRoles

\* C20: Database status ready=true is written only by a reconciliation in
\* which every step succeeded: then databaseCreated is true, usersCreated is
\* the full list of declared role names in declared order, the database and
\* every declared role exist on the server, and a secret exists at the derived
\* name for every role whose create-secret flag is true or unset.
C20_ReadyMeansAllProvisioned ==
    \A d \in DOMAIN databases :
       dbStatus[d].Ready =>
           /\ AllProvisioned(d)
           /\ \A i \in 1..Len(Users(d)) :
                 WantsSecret(Users(d)[i]) =>
                     NamespacedName(databases[d].Namespace,
                         DeclaredSecretName(databases[d], Users(d)[i]))
                         \in DOMAIN secrets

\* The reconciliation of d stopped because the owner reference of a role's
\* secret could not be set.
OwnerReferenceFailed(d) ==
    \E i \in 1..Len(Users(d)) :
       loc[d].sMessage =
           Wrap("Failed to ensure users",
               Wrap("failed to create secret for user " \o Users(d)[i].Name,
                   Wrap("failed to set controller reference",
                        SetControllerReference(databases[d], FALSE))))

\* The step is the secret materializer's, called for d.
MaterializerStep(d) ==
    /\ pc[d] \in {"secret", "secretCreate"}
    /\ pc'[d] # pc[d] \/ loc'[d] # loc[d]

\* The secrets a step adds to the store.
CreatedSecrets == DOMAIN secrets' \ DOMAIN secrets

\* C21: every secret created by the secret materializer carries a controller
\* owner reference to the Database being reconciled; if the owner reference
\* cannot be set, no secret is created and an error is returned.
C21_CreatedSecretsAreOwned ==
    [][\A d \in DOMAIN databases :
          /\ MaterializerStep(d) =>
                 \A key \in CreatedSecrets : secrets'[key].owner = d
          /\ (MaterializerStep(d) /\ OwnerReferenceFailed(d)') =>
                 /\ CreatedSecrets = {}
                 /\ trace'[d] = trace[d]
                 /\ pc'[d] = "status"
                 /\ ~loc'[d].sReady
      ]_vars

\* A reconciliation that created an owned secret for its first role and
\* could not set the owner reference for its second.
C21_Witness ==
    \E d \in DOMAIN databases :
       /\ OwnerReferenceFailed(d)
       /\ loc[d].i = 2
       /\ \E j \in 1..Len(trace[d]) :
             /\ trace[d][j].op = "secret.create" /\ trace[d][j].ok
             /\ trace[d][j].user = 1
             /\ secrets[trace[d][j].arg].owner = d
       /\ UserSecretKey(d, 2) \notin DOMAIN secrets

\* The error Reconcile returned is the store's optimistic-concurrency
\* conflict, bare or wrapped by the status writer.
IsConflict(err) ==
    err \in {"Conflict", Wrap("failed to update status", "Conflict")}

\* The status write was the last step of the returned reconciliation and the
\* store refused it.
StatusWriteFailed(tr, r) ==
    /\ r.Done
    /\ ~r.StatusWritten
    /\ LastStep(tr).op = "status.update"

\* C22: when a write to the resource store made by a reconciliation (in
\* particular the status update) fails with an optimistic-concurrency
\* conflict, the reconcile entrypoint answers with a requeue request and does
\* not return an error.
C22_ConflictIsRequeuedNotReturned ==
    /\ \A d \in DOMAIN databases :
          StatusWriteFailed(trace[d], ret[d]) =>
              /\ ~IsConflict(ret[d].Err)
              /\ ret[d].Err = "" => ret[d].Requeue
    /\ \A c \in DOMAIN connections :
          StatusWriteFailed(ctrace[c], cret[c]) =>
              /\ ~IsConflict(cret[c].Err)
              /\ cret[c].Err = "" => cret[c].Requeue

\* A returned reconciliation that did nothing but look up its resource and
\* not find it.
ReturnedEmpty(tr, r) ==
    /\ r.Err = ""
    /\ r.RequeueAfter = 0
    /\ ~r.Requeue
    /\ ~r.StatusWritten
    /\ Len(tr) = 1
    /\ tr[1].op = "get" /\ ~tr[1].ok

\* C23: reconciling a key whose resource does not exist (Database or
\* Connection) returns an empty result with nil error and performs no status
\* write, no secret creation and no connection to the server.
C23_MissingResourceIsNoOp ==
    /\ \A d \in DbKeys \ DOMAIN databases :
          /\ ret[d].Done => ReturnedEmpty(trace[d], ret[d])
          /\ loc[d].handle = "none"
          /\ pc[d] = "idle"
          /\ \A key \in DOMAIN secrets : secrets[key].owner # d
    /\ \A c \in ConnKeys \ DOMAIN connections :
          /\ cret[c].Done => ReturnedEmpty(ctrace[c], cret[c])
          /\ cpc[c] = "idle"

\* A Database key and a Connection key without a resource, both reconciled.
C23_Witness ==
    /\ \E d \in DbKeys \ DOMAIN databases : ret[d].Done
    /\ \E c \in ConnKeys \ DOMAIN connections : cret[c].Done

\* The Ready conditions among the conditions of a status.
ReadyConditions(conditions) ==
    { j \in 1..Len(conditions) : conditions[j].Type = "Ready" }

\* A status that was written holds exactly one Ready condition, True exactly
\* when the ready flag is set; a status never written holds none.
OneReadyCondition(status) ==
    IF status.Conditions = <<>>
    THEN ~status.Ready /\ status.Message = ""
    ELSE /\ Cardinality(ReadyConditions(status.Conditions)) = 1
         /\ \A j \in ReadyConditions(status.Conditions) :
               /\ status.Conditions[j].Status \in {"True", "False"}
               /\ status.Conditions[j].Status = "True" <=> status.Ready

\* C24: after any sequence of reconciliations of a resource, its status
\* conditions contain exactly one condition of type Ready (replaced, never
\* appended), and that condition's state is True exactly when the status
\* ready flag is true.
C24_SingleReadyCondition ==
    /\ \A d \in DOMAIN databases : OneReadyCondition(dbStatus[d])
    /\ \A c \in DOMAIN connections : OneReadyCondition(connections[c].Status)

\* A Connection that was written Ready, so that a Database became Ready
\* through it, and then written not Ready: its one condition turned False in
\* the last reconciliation.
C24_Witness ==
    \E c \in DOMAIN connections :
       /\ cret[c].Done /\ cret[c].StatusWritten
       /\ ~connections[c].Status.Ready
       /\ Len(connections[c].Status.Conditions) = 1
       /\ connections[c].Status.Conditions[1].Status = "False"
       /\ connections[c].Status.Conditions[1].LastTransitionTime = runs
       /\ \E d \in DOMAIN databases :
             dbStatus[d].Ready /\ Len(dbStatus[d].Conditions) = 1

\* The step is one of the Database reconciliation of d, or of the Connection
\* reconciliation of c.
DatabaseReconcilerStep(d) ==
    pc'[d] # pc[d] \/ loc'[d] # loc[d] \/ trace'[d] # trace[d]
        \/ ret'[d] # ret[d]

ConnectionReconcilerStep(c) ==
    cpc'[c] # cpc[c] \/ cloc'[c] # cloc[c] \/ ctrace'[c] # ctrace[c]
        \/ cret'[c] # cret[c]

\* C25: a Database reconciliation never creates, updates or deletes a
\* Connection resource or its status, and a Connection reconciliation writes
\* nothing except its own resource's status: it creates or changes no secret
\* and issues no statement that changes the server.
C25_ReconcilersWriteOnlyTheirOwn ==
    [][/\ \A d \in DbKeys :
             DatabaseReconcilerStep(d) => connections' = connections
       /\ \A c \in ConnKeys :
             ConnectionReconcilerStep(c) =>
                 /\ secrets' = secrets
                 /\ server' = server
                 /\ databases' = databases
                 /\ dbStatus' = dbStatus
                 /\ DOMAIN connections' = DOMAIN connections
                 /\ \A k \in DOMAIN connections :
                       /\ connections'[k].Spec = connections[k].Spec
                       /\ k # c => connections'[k] = connections[k]
      ]_vars

\* A Database reconciliation that provisioned a role and a secret next to a
\* Connection reconciliation that wrote its status: the connection shows only
\* what its own reconciliation wrote.
C25_Witness ==
    /\ \E d \in DOMAIN databases :
          /\ ret[d].Done /\ ret[d].StatusWritten
          /\ pgRoles # << >>
          /\ \E key \in DOMAIN secrets : secrets[key].owner = d
    /\ \E c \in DOMAIN connections :
          /\ cret[c].Done /\ cret[c].StatusWritten
          /\ connections[c].Status.Ready
          /\ connections[c].Spec = ConnectionResource.Spec

\* C26: after every Connection reconciliation that writes status, the
\* status's last-checked timestamp is set and reflects that reconciliation
\* (it advances with every reconciliation).  Reconciliations are numbered by
\* runs, which serves as the clock; 0 stands for a timestamp that is not set.
C26_LastCheckedFollowsReconciliation ==
    \A c \in DOMAIN connections :
       (cret[c].Done /\ cret[c].StatusWritten) =>
           /\ connections[c].Status.LastChecked # 0
           /\ connections[c].Status.LastChecked <= runs

\* The statement the specification maps a permission token to.
DeclaredGrantStatement(permission, databaseName, name) ==
    IF permission \in {"CONNECT", "CREATE"}
    THEN "GRANT " \o permission \o " ON DATABASE " \o databaseName
             \o " TO " \o name
    ELSE IF permission = "ALL"
    THEN "GRANT ALL PRIVILEGES ON DATABASE " \o databaseName \o " TO " \o name
    ELSE IF permission = "USAGE"
    THEN "GRANT USAGE ON SCHEMA public TO " \o name
    ELSE "GRANT " \o permission \o " ON ALL TABLES IN SCHEMA public TO "
             \o name

\* The events a step appends to the events of d.
NewEvents(d) == SubSeq(trace'[d], Len(trace[d]) + 1, Len(trace'[d]))

\* The grant step of d returns an error in this step.
GrantStepFails(d) == pc'[d] = "status" /\ ~loc'[d].sReady

\* The step is the grant step of d for a role all of whose tokens are of the
\* enum.
GrantStepOfKnownTokens(d) ==
    /\ pc[d] = "grant"
    /\ pc'[d] # "grant"
    /\ \A j \in 1..Len(Users(d)[loc[d].i].Permissions) :
          Users(d)[loc[d].i].Permissions[j] \in Tokens

\* C27: the grant step issues exactly one statement per declared permission
\* token, in declared order, and skips no token of the enum: CONNECT, CREATE
\* and ALL target the database, USAGE targets schema public, and SELECT,
\* INSERT, UPDATE and DELETE target all tables in schema public.  (A statement
\* the server rejects ends the step.)
C27_OneStatementPerToken ==
    [][\A d \in DOMAIN databases :
          GrantStepOfKnownTokens(d) =>
              LET user == Users(d)[loc[d].i]
                  new == NewEvents(d)
              IN  /\ Len(new) <= Len(user.Permissions)
                  /\ \A j \in 1..Len(new) :
                        /\ new[j].op = "exec"
                        /\ new[j].user = loc[d].i
                        /\ new[j].arg =
                               DeclaredGrantStatement(user.Permissions[j],
                                   databases[d].Spec.DatabaseName, user.Name)
                        /\ j < Len(new) => new[j].ok
                  /\ ~GrantStepFails(d) =>
                        /\ Len(new) = Len(user.Permissions)
                        /\ \A j \in 1..Len(new) : new[j].ok
      ]_vars

\* The first position of a permission list that holds a token outside the
\* enum, or its length plus one.
FirstUnrecognized(perms) ==
    IF \E j \in 1..Len(perms) : perms[j] \notin Tokens
    THEN CHOOSE j \in 1..Len(perms) :
             /\ perms[j] \notin Tokens
             /\ \A h \in 1..(j - 1) : perms[h] \in Tokens
    ELSE Len(perms) + 1

\* The step is the grant step of d for a role with an unrecognized token.
GrantStepOfUnrecognizedToken(d) ==
    /\ pc[d] = "grant"
    /\ pc'[d] # "grant"
    /\ FirstUnrecognized(Users(d)[loc[d].i].Permissions)
           <= Len(Users(d)[loc[d].i].Permissions)

\* C28: when a role's permission list contains an unrecognized token at
\* position i, the grant step returns an error, the statements for the tokens
\* before position i have been issued and are not rolled back, and no
\* statement is issued for position i or any later token of that role.  (A
\* statement the server rejects ends the step earlier.)
C28_UnrecognizedTokenFailsRole ==
    [][\A d \in DOMAIN databases :
          GrantStepOfUnrecognizedToken(d) =>
              LET user == Users(d)[loc[d].i]
                  stop == FirstUnrecognized(user.Permissions)
                  new == NewEvents(d)
              IN  /\ GrantStepFails(d)
                  /\ Len(new) <= stop - 1
                  /\ \A j \in 1..Len(new) :
                        /\ new[j].op = "exec"
                        /\ new[j].arg =
                               DeclaredGrantStatement(user.Permissions[j],
                                   databases[d].Spec.DatabaseName, user.Name)
                        /\ new[j].ok => new[j].arg \in pgGrants'
                  /\ (\A j \in 1..Len(new) : new[j].ok) =>
                        Len(new) = stop - 1
                  /\ pgGrants \subseteq pgGrants'
      ]_vars

\* The step issues the role-creation statement for the role d is at.
IssuesRoleCreation(d) ==
    /\ pc[d] = "createUser"
    /\ pc'[d] # "createUser"

\* The successful role creations among the events of d, for the role name n.
RoleCreations(d, n) ==
    { j \in 1..Len(trace[d]) :
        /\ trace[d][j].op = "exec" /\ trace[d][j].ok
        /\ trace[d][j].user >= 1
        /\ Users(d)[trace[d][j].user].Name = n
        /\ ~IsGrant(d, trace[d][j]) }

\* C29: ensureRole issues a role-creation statement only when the role is
\* absent; for a role that already exists it issues no statement, so the
\* role's password and attributes are unchanged, and calling it twice in a
\* row creates the role exactly once.
C29_RoleCreatedOnlyWhenAbsent ==
    [][/\ \A d \in DOMAIN databases :
             /\ IssuesRoleCreation(d) =>
                    Users(d)[loc[d].i].Name \notin DOMAIN pgRoles
             /\ \A i \in 1..Len(Users(d)) :
                    Cardinality(RoleCreations(d, Users(d)[i].Name)') <= 1
       /\ \A n \in DOMAIN pgRoles :
             n \in DOMAIN pgRoles' /\ pgRoles'[n] = pgRoles[n]
      ]_vars

\* The step is one of ensureDatabase, called for d.
EnsureDatabaseStep(d) ==
    /\ pc[d] \in {"dbExists", "createDb"}
    /\ pc'[d] # pc[d]

\* C30: if a database of the declared name already exists, ensureDatabase
\* issues no statement that changes it: its owner and encoding stay as they
\* were, also when the declaration names a different owner or encoding, and
\* the call returns true (unless the catalog lookup itself fails).
C30_ExistingDatabaseUntouched ==
    [][\A d \in DOMAIN databases :
          (/\ EnsureDatabaseStep(d)
           /\ databases[d].Spec.DatabaseName \in DOMAIN pgDatabases) =>
              /\ pgDatabases' = pgDatabases
              /\ \A j \in 1..Len(NewEvents(d)) :
                    /\ NewEvents(d)[j].op = "query"
                    /\ NewEvents(d)[j].ok =>
                           /\ loc'[d].databaseCreated
                           /\ ~(pc'[d] = "status" /\ ~loc'[d].sReady)
      ]_vars

\* A database that existed with the owner and encoding someone else gave it,
\* which differ from the declared ones: ensureDatabase returned true, the
\* reconciliation wrote databaseCreated, and the database is as it was.
C30_Witness ==
    \E d \in DOMAIN databases :
       /\ ret[d].Done /\ ret[d].StatusWritten
       /\ dbStatus[d].DatabaseCreated
       /\ databases[d].Spec.DatabaseName \in DOMAIN pgDatabases
       /\ pgDatabases[databases[d].Spec.DatabaseName] =
              [owner |-> "dba", encoding |-> "LATIN1"]
       /\ createDatabaseOwner(databases[d]) # "dba"
       /\ createDatabaseEncoding(databases[d]) # "LATIN1"

\* The secret operations (read or create) the reconciliation of d made for
\* its role i.
SecretOperations(d, i) ==
    { j \in 1..Len(trace[d]) :
        /\ trace[d][j].op \in {"secret.get", "secret.create"}
        /\ trace[d][j].user = i }

\* The reconciliation of d got through every step.
Succeeded(d) ==
    /\ pc[d] = "status" \/ ret[d].Done
    /\ loc[d].sReady

\* C31: a secret is materialized for a role exactly when the role's
\* create-secret flag is unset or true; for a role whose flag is false, no
\* secret is created or read and the role is still provisioned and listed in
\* usersCreated.
C31_SecretFollowsCreateSecretFlag ==
    \A d \in DOMAIN databases : \A i \in 1..Len(Users(d)) :
       /\ Users(d)[i].CreateSecret = "false" => SecretOperations(d, i) = {}
       /\ Succeeded(d) =>
              /\ Users(d)[i].CreateSecret \in {"nil", "true"}
                     <=> SecretOperations(d, i) # {}
              /\ Users(d)[i].Name \in DOMAIN pgRoles
              /\ loc[d].sUsersCreated[i] = Users(d)[i].Name

\* A reconciliation that succeeded for a role with the flag unset, which got
\* its secret, and a role with the flag false, which got none.
C31_Witness ==
    \E d \in DOMAIN databases :
       /\ ret[d].Done /\ ret[d].StatusWritten /\ dbStatus[d].Ready
       /\ Len(Users(d)) = 2
       /\ Users(d)[1].CreateSecret = "nil"
       /\ Users(d)[2].CreateSecret = "false"
       /\ SecretOperations(d, 1) # {}
       /\ SecretOperations(d, 2) = {}
       /\ dbStatus[d].UsersCreated = <<Users(d)[1].Name, Users(d)[2].Name>>

\* The keys the specification allows the credentials of pgConn to be read
\* from: the referenced secret, in the reference's namespace or else the
\* connection's own; without a reference, a secret derived from the cluster
\* name, in the cluster namespace or else the connection's own.
DeclaredCredentialKeys(pgConn) ==
    IF pgConn.Spec.HasSuperUserSecret
    THEN { NamespacedName(
               IF pgConn.Spec.SuperUserSecret.Namespace # ""
               THEN pgConn.Spec.SuperUserSecret.Namespace
               ELSE pgConn.Namespace,
               pgConn.Spec.SuperUserSecret.Name) }
    ELSE { NamespacedName(
               IF pgConn.Spec.ClusterNamespace # ""
               THEN pgConn.Spec.ClusterNamespace
               ELSE pgConn.Namespace,
               pgConn.Spec.ClusterName \o suffix) :
           suffix \in {"-app", "-superuser"} }

\* C32: when the connection names an explicit credential secret, that secret
\* is the one read regardless of the cluster name and the useAppSecret flag,
\* in the reference's namespace or, when the reference has none, the
\* connection's own namespace; when no explicit reference is given the
\* derived secret is read from the cluster namespace, which defaults to the
\* connection's own namespace.
C32_CredentialSecretLocation ==
    \A c \in DOMAIN connections :
       CredentialReads(c) \subseteq DeclaredCredentialKeys(connections[c])

\* The step is one of a reconciliation of d that found d Ready, and neither
\* this step nor anything before it met a failure of the store or the server
\* or a write by anyone else.
RereconcilingStep(d) ==
    /\ dbStatus[d].Ready
    /\ DatabaseReconcilerStep(d)
    /\ faults' = MaxFaults

\* C33: reconciling again an unchanged Database that is already Ready,
\* against an unchanged server and store, issues no database-creation and no
\* role-creation statement, creates or modifies no secret, and writes the
\* same ready, databaseCreated and usersCreated values as before.
C33_RereconcilingChangesNothing ==
    [][\A d \in DOMAIN databases :
          RereconcilingStep(d) =>
              /\ pc[d] \notin {"createDb", "createUser"}
              /\ pgDatabases' = pgDatabases
              /\ pgRoles' = pgRoles
              /\ secrets' = secrets
              /\ dbStatus'[d].Ready = dbStatus[d].Ready
              /\ dbStatus'[d].DatabaseCreated = dbStatus[d].DatabaseCreated
              /\ dbStatus'[d].UsersCreated = dbStatus[d].UsersCreated
              /\ pc[d] = "status" =>
                     /\ loc[d].sReady
                     /\ ret'[d].StatusWritten
      ]_vars

\* A second reconciliation of a Ready Database with a role that wants a
\* secret has made all its calls and is about to write the status.
C33_Witness ==
    \E d \in DOMAIN databases :
       /\ dbStatus[d].Ready
       /\ faults = MaxFaults
       /\ pc[d] = "status"
       /\ loc[d].sReady
       /\ Len(Users(d)) = MaxUsers
       /\ \E i \in 1..Len(Users(d)) : SecretOperations(d, i) # {}

\* The connection d refers to exists and its status is Ready.
ConnectionIsReady(d) ==
    /\ connKey(databases[d]) \in DOMAIN connections
    /\ connections[connKey(databases[d])].Status.Ready

\* Every permission token declared for d is of the enum.
TokensSupported(d) ==
    \A i \in 1..Len(Users(d)) :
       FirstUnrecognized(Users(d)[i].Permissions) >
           Len(Users(d)[i].Permissions)

\* No reconciliation can start any more and d is in none, and the last one
\* of d, if any, met a connection that was not Ready, or the environment
\* has injected a failure.
Exhausted(d) ==
    /\ runs = MaxRuns
    /\ pc[d] = "idle"
    /\ faults < MaxFaults \/ ~loc[d].pgConn.Status.Ready

C35_ReadyIsRevalidated ==
    \A d \in {"ns1/app-db"} :
       (dbStatus[d].Ready /\ ~ConnectionIsReady(d)) ~>
           (~dbStatus[d].Ready \/ ConnectionIsReady(d) \/ runs = MaxRuns)

\* Statuses an earlier reconciliation may have left on a Connection: none,
\* Ready, or not ready with a failure message.
PriorStatuses ==
    { ConnectionResource.Status }
    \cup { UpdatePostGresConnectionStatusObject(ConnectionResource.Status,
                ready, message, 1) :
            ready \in BOOLEAN,
            message \in {"Connection validated successfully",
                         Wrap("failed to connect to database",
                              Wrap("failed to ping database", ServerError))} }

\* What validateConnection leaves for the status update, for the result of
\* Connect.
ValidationOutcome(out) ==
    IF out.err = ""
    THEN [ready |-> TRUE, message |-> "Connection validated successfully"]
    ELSE [ready |-> FALSE,
          message |-> Wrap("failed to connect to database", out.err)]

\* C36: the ready flag and message written by a Connection reconciliation
\* depend only on the connection's spec and the current state of the secret
\* store and the server, not on the status left by earlier reconciliations:
\* two runs that differ only in the prior status write the same ready flag
\* and message.
C36_ConnectionStatusIgnoresPriorStatus ==
    [][\A c \in DOMAIN connections : \A st \in PriorStatuses :
          /\ (cpc[c] = "validate" /\ cpc'[c] = "status") =>
                 \E readOk, pingOk \in BOOLEAN :
                    LET now == ClientConnect(connections[c], readOk, pingOk)
                        other == ClientConnect(
                                     [connections[c] EXCEPT !.Status = st],
                                     readOk, pingOk)
                    IN  /\ cloc'[c] = ValidationOutcome(now)
                        /\ now.fault = (faults' # faults)
                        /\ other = now
          /\ (cpc[c] = "status" /\ cret'[c].StatusWritten) =>
                 LET other == UpdatePostGresConnectionStatusObject(
                                  st, cloc[c].ready, cloc[c].message, runs)
                 IN  /\ connections'[c].Status.Ready = cloc[c].ready
                     /\ connections'[c].Status.Message = cloc[c].message
                     /\ other.Ready = connections'[c].Status.Ready
                     /\ other.Message = connections'[c].Status.Message
      ]_vars

\* Only the Connection has been reconciled, twice: its first reconciliation
\* did not leave it Ready, and its second one wrote ready=true over that.
C36_Witness ==
    \E c \in DOMAIN connections :
       /\ runs = 2
       /\ \A d \in DbKeys : ~ret[d].Done /\ pc[d] = "idle"
       /\ \A k \in ConnKeys \ {c} : ~cret[k].Done
       /\ cret[c].Done /\ cret[c].StatusWritten
       /\ connections[c].Status.Ready
       /\ Len(connections[c].Status.Conditions) = 1
       /\ connections[c].Status.Conditions[1].LastTransitionTime = 2

\* The status messages of a reconciliation of d whose create statement the
\* server refused because the database, or the role, existed by then.
LostCreateMessages(d) ==
    { Wrap("Failed to ensure database",
           Wrap("failed to create database", DuplicateError)) }
    \cup { Wrap("Failed to ensure users",
                Wrap("failed to ensure user " \o Users(d)[i].Name,
                     Wrap("failed to create user", DuplicateError))) :
           i \in 1..Len(Users(d)) }

\* The status messages of a reconciliation of d whose secret someone else
\* created between its read and its create.
LostSecretMessages(d) ==
    { Wrap("Failed to ensure users",
           Wrap("failed to create secret for user " \o Users(d)[i].Name,
                Wrap("failed to create secret", AlreadyExistsError))) :
      i \in 1..Len(Users(d)) }

\* The reconciliation of d is about to report that it lost such a race.
LostCreate(d) ==
    /\ pc[d] = "status"
    /\ ~loc[d].sReady
    /\ loc[d].sMessage \in LostCreateMessages(d)

\* The step is the status write of the reconciliation of d that follows one
\* which lost a race, and the environment has injected no failure so far.
WriteAfterLostCreate(d) ==
    /\ pc[d] = "status"
    /\ pc'[d] = "idle"
    /\ ~dbStatus[d].Ready
    /\ dbStatus[d].Message \in LostCreateMessages(d)
    /\ faults' = MaxFaults

\* A step creates at most one database and one role, each under a name the
\* server did not hold, and changes none that it held.
CreatesOnlyWhatIsAbsent ==
    /\ \A n \in DOMAIN pgDatabases :
          n \in DOMAIN pgDatabases' /\ pgDatabases'[n] = pgDatabases[n]
    /\ \A n \in DOMAIN pgRoles :
          n \in DOMAIN pgRoles' /\ pgRoles'[n] = pgRoles[n]
    /\ Cardinality(DOMAIN pgDatabases' \ DOMAIN pgDatabases) <= 1
    /\ Cardinality(DOMAIN pgRoles' \ DOMAIN pgRoles) <= 1

\* The loser of a race writes ready=false and returns a nil error with the
\* short requeue interval.
LoserEndsNotReady ==
    \A d \in DOMAIN databases :
       (LostCreate(d) /\ pc'[d] = "idle" /\ faults' = faults) =>
           /\ ret'[d].StatusWritten
           /\ ret'[d].Err = ""
           /\ ret'[d].RequeueAfter = RequeueNotReadyMinutes
           /\ ~dbStatus'[d].Ready

\* C37 as stated: when two different Database resources that declare the same
\* target database name (or the same role name) are reconciled concurrently,
\* then in every interleaving of their exists-check and create steps the
\* database (role) is created at most once, and a reconciliation whose create
\* statement fails because the other created the object first ends not-ready
\* with nil error and reaches Ready at its next reconciliation.
C37_LoserIsReadyNextTime ==
    [][/\ CreatesOnlyWhatIsAbsent
       /\ LoserEndsNotReady
       /\ \A d \in DOMAIN databases :
             WriteAfterLostCreate(d) => loc[d].sReady /\ dbStatus'[d].Ready
      ]_vars

\* C37, amended: the database (role) is created at most once, the loser ends
\* not-ready with nil error and the short requeue, and its next
\* reconciliation reaches Ready unless it loses another race: for an object
\* the two Databases also share (the role after the database) or, in the
\* monolithic build, for the secret both name alike.
C37_LoserIsReadyUnlessItLosesAgain ==
    [][/\ CreatesOnlyWhatIsAbsent
       /\ LoserEndsNotReady
       /\ \A d \in DOMAIN databases :
             WriteAfterLostCreate(d) =>
                 \/ loc[d].sReady /\ dbStatus'[d].Ready
                 \/ LostCreate(d)
                 \/ impl = "mono" /\ loc[d].sMessage \in LostSecretMessages(d)
      ]_vars

\* A Database whose first ensureDatabase sent a create statement that the
\* server refused for a duplicate, and whose second reconciliation found the
\* database and ended Ready.
C37_Witness ==
    \E d \in DOMAIN databases :
       /\ DOMAIN databases = DbKeys
       /\ faults = MaxFaults
       /\ Len(ensureHist[d]) = 2
       /\ ensureHist[d][1].creates = 1
       /\ ensureHist[d][1].err /\ ~ensureHist[d][1].rejected
       /\ ensureHist[d][2].before
       /\ ret[d].Done /\ ret[d].StatusWritten
       /\ dbStatus[d].Ready

\* The key under which the running build stores the secret of role i of d.
RoleSecretKey(d, i) ==
    NamespacedName(databases[d].Namespace,
        IF impl = "svc"
        THEN CreateUserSecretName(databases[d], Users(d)[i])
        ELSE createUserSecretName(databases[d], Users(d)[i]))

\* C38: for every Database whose status is Ready and every declared role with
\* create-secret set, the secret at the role's secret name is owned by that
\* Database and its username equals the role name; this holds for every
\* initial content of the secret store and when several Databases or roles
\* derive the same secret name.
C38_ReadyMeansOwnedSecrets ==
    \A d \in DOMAIN databases :
       dbStatus[d].Ready =>
           \A i \in 1..Len(Users(d)) :
              WantsSecret(Users(d)[i]) =>
                  /\ RoleSecretKey(d, i) \in DOMAIN secrets
                  /\ secrets[RoleSecretKey(d, i)].owner = d
                  /\ secrets[RoleSecretKey(d, i)].username = Users(d)[i].Name

\* The positions of the status updates among the events tr.
StatusUpdates(tr) == { j \in 1..Len(tr) : tr[j].op = "status.update" }

\* The events tr of a reconciliation that read its resource hold one status
\* update once it has returned (r) and none before, nothing but the close of
\* the handle follows the update, and a refused update is returned as an
\* error without a requeue interval.
OneStatusUpdateLast(tr, r) ==
    (tr # <<>> /\ tr[1].ok) =>
        /\ Cardinality(StatusUpdates(tr)) = (IF r.Done THEN 1 ELSE 0)
        /\ \A j \in StatusUpdates(tr) :
              \A k \in (j + 1)..Len(tr) : tr[k].op = "close"
        /\ (r.Done /\ ~r.StatusWritten) =>
               /\ r.Err # ""
               /\ r.RequeueAfter = 0

\* C39: every reconciliation that successfully reads its resource attempts
\* exactly one status update, and that update is its last operation on the
\* store and comes after every SQL statement and secret creation of the
\* reconciliation; when the status update fails, Reconcile returns the error
\* with no requeue interval.
C39_OneStatusUpdateAtTheEnd ==
    /\ \A d \in DbKeys : OneStatusUpdateLast(trace[d], ret[d])
    /\ \A c \in ConnKeys : OneStatusUpdateLast(ctrace[c], cret[c])

\* A reconciliation that created the database, a role and its secret, and
\* whose status update the store then refused.
C39_Witness ==
    \E d \in DOMAIN databases :
       /\ StatusWriteFailed(trace[d], ret[d])
       /\ loc[d].sReady
       /\ \E j \in 1..Len(trace[d]) :
             trace[d][j].op = "exec" /\ trace[d][j].user = 0 /\ trace[d][j].ok
       /\ \E j \in 1..Len(trace[d]) :
             trace[d][j].op = "secret.create" /\ trace[d][j].ok
       /\ ret[d].Err # ""

====
